---- MODULE Spec2Model ----
(***************************************************************************)
(* Model of shodan-sec-monitor: the pooled relational store                *)
(* (src/shodan_monitor/db.py) and the collection loop                      *)
(* (src/shodan_monitor/collector.py).                                      *)
(*                                                                         *)
(* Optional values of the Python code (None or a value) are sequences of   *)
(* length at most one: None is <<>> and a value v is <<v>>.                *)
(***************************************************************************)
EXTENDS Integers, Sequences, FiniteSets, TLC

\* ------------------------------------------------------------------
\* Bounds of the model
\* ------------------------------------------------------------------
\* Largest value the SERIAL sequences of targets.id and services.id reach.
MaxSeq == 3
\* Largest value of the wall clock (minutes).
MaxTime == 1
\* Number of scan-run identities uuid4 can hand out.
MaxRuns == 2
\* maxconn the pool is configured with (db.py passes 10; the model is checked
\* with a smaller pool so that exhaustion is reached).
MaxConn == 2

\* ------------------------------------------------------------------
\* Program constants
\* ------------------------------------------------------------------
\* init_connection_pool(minconn=1, ...)
MinConn == 1

None == <<>>
Some(v) == <<v>>
IsNone(o) == o = <<>>
Val(o) == o[1]

Threads == {"orchestrator", "reclaimer"}
Conns == 1..MaxConn
ScanIds == 1..MaxRuns
Times == 0..MaxTime

\* class ScanStatus / VALID_STATUSES
RUNNING == "running"
COMPLETED == "completed"
FAILED == "failed"
TIMEOUT == "timeout"
VALID_STATUSES == {RUNNING, COMPLETED, FAILED, TIMEOUT}
TerminalStatuses == {COMPLETED, FAILED, TIMEOUT}

VARIABLES
    now,        \* wall clock, in minutes
    pool,       \* _connection_pool: [exists, idle, used]
    txn,        \* per connection: transaction status and uncommitted tables
    store,      \* committed tables: scan_runs, targets, services
    seqs,       \* SERIAL sequences of targets.id and services.id
    pc,         \* per thread: position inside get_cursor
    op,         \* per thread: the db.py function being executed
    conn,       \* per thread: local variable conn of get_cursor
    cur,        \* per thread: whether local variable cur of get_cursor is bound
    exc,        \* per thread: exception propagating out of the current/last call
    call,       \* per thread: arguments the body was run with
    ret,        \* per thread: value returned by the body
    should_exit,            \* GracefulShutdown.should_exit
    cpc,                    \* position of ShodanCollector.run
    cycle,                  \* cycles of the main loop started so far
    pi,                     \* index of the current profile in the profile list
    last_checkpoint,        \* _process_profile: local last_checkpoint
    active_query,           \* _process_profile: local active_query
    banner,                 \* _process_profile: the banner just yielded
    yielded,                \* banners the source has yielded in this pass
    total_processed,        \* stats.total_processed
    country_distribution,   \* _process_profile: local country_distribution
    naps,                   \* time.sleep(5) calls of the current inter-cycle sleep
    intel_stats,            \* per-profile aggregate with the checkpoint
    intel_history,          \* append-only per-profile history
    raw_banners,            \* the raw record collection
    legacy,                 \* the legacy per-target collector: position, locals, connection, scan_results
    pm                      \* the pool functions of db.py step by step: _connection_pool, the pools made, each caller

\* State of db.py: the pool, the tables and the calls in progress.
dbrest == <<pool, txn, store, seqs, pc, op, conn, cur, exc, call, ret, legacy, pm>>

\* State of the collector and of the stores it writes.
covars == <<should_exit, cpc, cycle, pi, last_checkpoint, active_query, banner,
            yielded, total_processed, country_distribution, naps, intel_stats,
            intel_history, raw_banners, legacy, pm>>

dbvars == <<now, pool, txn, store, seqs, pc, op, conn, cur, exc, call, ret>>

NoCall == [name |-> "none"]
IdleTxn == [status |-> "idle", work |-> None]

EmptyFn == [x \in {} |-> 0]

\* db.py after import, seen by concurrent callers (line 40): the global
\* _connection_pool is None (0), no pool was made, no caller is inside a
\* pool function.  A caller has its position, the function it is in, its
\* local variable pool, the pool its connection came from and the error
\* its last call raised.
PoolModuleStart == [global |-> 0, created |-> 0, closed |-> {}, closes |-> 0, th |-> [t \in {"orchestrator", "reclaimer"} |-> [at |-> "idle", fn |-> "none", local |-> 0, held |-> 0, err |-> "none"]]]

\* The legacy collector (src/shodan-monitor/collector.py) after init_db()
\* on line 15, before its loop: no connection, an empty scan_results.
LegacyStart == [lpc |-> "connect", cycle |-> 0, i |-> 0, n |-> 0, k |-> 0, tx |-> "idle", pending |-> {}, scan_results |-> {}, errors |-> {}]

\* scan_runs maps its primary key to the row; targets and services are sets of
\* rows, each with its SERIAL id.
EmptyStore == [scan_runs |-> EmptyFn, targets |-> {}, services |-> {}]

\* ------------------------------------------------------------------
\* Connection pool (db.py 40-73; psycopg2.pool.SimpleConnectionPool)
\* ------------------------------------------------------------------
NoPool == [exists |-> FALSE, idle |-> {}, used |-> {}]

\* init_connection_pool: SimpleConnectionPool(minconn, maxconn) opens minconn
\* connections at construction.
init_connection_pool(p) ==
    IF p.exists THEN p
    ELSE [exists |-> TRUE, idle |-> 1..MinConn, used |-> {}]

\* get_connection_pool: lazily creates the pool.
get_connection_pool(p) == IF ~p.exists THEN init_connection_pool(p) ELSE p

FreshConn(p) == CHOOSE c \in Conns \ (p.idle \cup p.used) :
                    \A d \in Conns \ (p.idle \cup p.used) : c <= d

\* pool.getconn(): an idle connection if there is one, else a new connection
\* unless maxconn are in use, and then PoolError.
CanGetConn(p) == p.idle /= {} \/ Cardinality(p.used) < MaxConn

GotConn(p) == IF p.idle /= {} THEN CHOOSE c \in p.idle : \A d \in p.idle : c <= d
              ELSE FreshConn(p)

getconn(p) == [p EXCEPT !.idle = @ \ {GotConn(p)}, !.used = @ \cup {GotConn(p)}]

\* pool.putconn(conn): the connection is kept (rolled back if it is not idle)
\* while fewer than minconn are idle, else closed.
putconn(p, c) ==
    IF Cardinality(p.idle) < MinConn
    THEN [p EXCEPT !.used = @ \ {c}, !.idle = @ \cup {c}]
    ELSE [p EXCEPT !.used = @ \ {c}]

\* return_connection(conn)
return_connection(p, c) == putconn(get_connection_pool(p), c)

\* conn.rollback(): the open transaction and its uncommitted writes are dropped.
rollback(tx) == IdleTxn

\* What putconn/close leave of the connection's transaction: nothing.
putconn_reset(tx) == IdleTxn

except_no_rollback(tx) == tx

\* The except clause of get_cursor (lines 84-87) rolls the transaction back.
except_rollback(tx) == rollback(tx)

\* ------------------------------------------------------------------
\* get_cursor (db.py 75-90)
\* ------------------------------------------------------------------
\* The tables the next statement of connection c works on.
Base(c) == IF IsNone(txn[c].work) THEN store ELSE Val(txn[c].work)

\* with get_cursor(...) as cur: conn = get_connection(); cur = conn.cursor().
\* get_connection raising PoolError ends the call before the try block.
Enter(t, name) ==
    /\ pc[t] = "idle"
    /\ LET p == get_connection_pool(pool) IN
        IF CanGetConn(p)
        THEN /\ pool' = getconn(p)
             /\ conn' = [conn EXCEPT ![t] = Some(GotConn(p))]
             /\ cur' = [cur EXCEPT ![t] = TRUE]
             /\ pc' = [pc EXCEPT ![t] = "body"]
             /\ op' = [op EXCEPT ![t] = name]
             /\ exc' = [exc EXCEPT ![t] = None]
        ELSE /\ pool' = p
             /\ exc' = [exc EXCEPT ![t] = Some("PoolError")]
             /\ UNCHANGED <<conn, cur, pc, op>>
    /\ call' = [call EXCEPT ![t] = NoCall]
    /\ ret' = [ret EXCEPT ![t] = None]
    /\ UNCHANGED <<now, txn, store, seqs, covars>>

\* conn.cursor() raises (line 80): cur is never bound, control goes to except.
EnterCursorFails(t, name) ==
    /\ pc[t] = "idle"
    /\ LET p == get_connection_pool(pool) IN
        /\ CanGetConn(p)
        /\ pool' = getconn(p)
        /\ conn' = [conn EXCEPT ![t] = Some(GotConn(p))]
    /\ cur' = [cur EXCEPT ![t] = FALSE]
    /\ pc' = [pc EXCEPT ![t] = "except"]
    /\ op' = [op EXCEPT ![t] = name]
    /\ exc' = [exc EXCEPT ![t] = Some("InterfaceError")]
    /\ call' = [call EXCEPT ![t] = NoCall]
    /\ ret' = [ret EXCEPT ![t] = None]
    /\ UNCHANGED <<now, txn, store, seqs, covars>>

\* The body returned `value` (normally or by an early return) having left the
\* tables of its transaction as `work`; lines 82-83 commit if autocommit.
\* commit_ok = FALSE is conn.commit() raising.
Returned(t, c, work, began, value, autocommit, commit_ok) ==
    /\ ret' = [ret EXCEPT ![t] = value]
    /\ IF autocommit
       THEN IF commit_ok
            THEN /\ store' = work
                 /\ txn' = [txn EXCEPT ![c] = IdleTxn]
                 /\ pc' = [pc EXCEPT ![t] = "finally"]
                 /\ exc' = exc
            ELSE /\ store' = store
                 /\ txn' = [txn EXCEPT ![c] = [status |-> "intrans", work |-> Some(work)]]
                 /\ pc' = [pc EXCEPT ![t] = "except"]
                 /\ exc' = [exc EXCEPT ![t] = Some("OperationalError")]
       ELSE /\ store' = store
            /\ txn' = [txn EXCEPT ![c] =
                          IF began THEN [status |-> "intrans", work |-> Some(work)] ELSE @]
            /\ pc' = [pc EXCEPT ![t] = "finally"]
            /\ exc' = exc

\* The body raised e; `began` tells whether a statement had been sent (the
\* transaction is then open, in error).
Raised(t, c, e, began) ==
    /\ ret' = [ret EXCEPT ![t] = None]
    /\ store' = store
    /\ txn' = [txn EXCEPT ![c] =
                  IF began THEN [status |-> "inerror", work |-> Some(Base(c))] ELSE @]
    /\ pc' = [pc EXCEPT ![t] = "except"]
    /\ exc' = [exc EXCEPT ![t] = Some(e)]

\* except Exception: conn.rollback(); logger.error; raise (lines 84-87)
Except(t) ==
    /\ pc[t] = "except"
    /\ txn' = [txn EXCEPT ![Val(conn[t])] = except_rollback(@)]
    /\ pc' = [pc EXCEPT ![t] = "finally"]
    /\ UNCHANGED <<now, pool, store, seqs, op, conn, cur, exc, call, ret, covars>>

\* finally: cur.close(); return_connection(conn) (lines 88-90). With cur
\* unbound, cur.close() raises UnboundLocalError and line 90 is not reached.
Finally(t) ==
    /\ pc[t] = "finally"
    /\ IF cur[t]
       THEN /\ pool' = return_connection(pool, Val(conn[t]))
            /\ txn' = [txn EXCEPT ![Val(conn[t])] = putconn_reset(@)]
            /\ exc' = exc
       ELSE /\ pool' = pool
            /\ txn' = txn
            /\ exc' = [exc EXCEPT ![t] = Some("UnboundLocalError")]
    /\ pc' = [pc EXCEPT ![t] = "idle"]
    /\ op' = [op EXCEPT ![t] = "none"]
    /\ conn' = [conn EXCEPT ![t] = None]
    /\ cur' = [cur EXCEPT ![t] = FALSE]
    /\ call' = [call EXCEPT ![t] = NoCall]
    /\ ret' = [ret EXCEPT ![t] = None]
    /\ UNCHANGED <<now, store, seqs, covars>>

\* cur.execute(...) raises a storage error: the statement has no effect and the
\* transaction is left open, in error.
StatementFails(t) ==
    /\ pc[t] = "body"
    /\ call' = [call EXCEPT ![t] = [name |-> op[t]]]
    /\ Raised(t, Val(conn[t]), "OperationalError", TRUE)
    /\ UNCHANGED <<now, pool, seqs, op, conn, cur, covars>>

\* The wall clock advances.
Tick ==
    /\ now < MaxTime
    /\ now' = now + 1
    /\ UNCHANGED <<dbrest, covars>>

\* ------------------------------------------------------------------
\* Scan-run ledger (db.py 187-285)
\* ------------------------------------------------------------------
\* INSERT INTO scan_runs (id, targets_count, status): the other columns take
\* their defaults (started_at now(), finished_at NULL, counts 0).
create_scan_run_sql(runs, scan_id, targets_count, t0) ==
    runs @@ (scan_id :> [started_at |-> t0,
                         finished_at |-> None,
                         status |-> RUNNING,
                         targets_count |-> targets_count,
                         successful_targets |-> 0,
                         failed_targets |-> 0,
                         total_services |-> 0])

\* uuid.uuid4(): an identity no row has yet.
uuid4(runs) == CHOOSE i \in ScanIds \ DOMAIN runs : \A j \in ScanIds \ DOMAIN runs : i <= j

\* `if status:` is false for None and for the empty string.
Truthy(status) == ~IsNone(status) /\ Val(status) /= ""

\* lines 215-217: raise ValueError
update_scan_run_invalid(status) == Truthy(status) /\ Val(status) \notin VALID_STATUSES

\* lines 212-235: the SET clauses the call builds, as the new value of each
\* column (None: the column is not assigned).
update_scan_run_updates(status, successful_targets, failed_targets, total_services) ==
    [status |-> IF Truthy(status) THEN status ELSE None,
     finished_at |-> Truthy(status) /\ Val(status) \in {COMPLETED, FAILED, TIMEOUT},
     successful_targets |-> successful_targets,
     failed_targets |-> failed_targets,
     total_services |-> total_services]

\* line 237: `if not updates: return`
NoUpdates(u) ==
    /\ IsNone(u.status)
    /\ IsNone(u.successful_targets)
    /\ IsNone(u.failed_targets)
    /\ IsNone(u.total_services)

\* UPDATE scan_runs SET ... WHERE id = scan_id (lines 243-249)
update_scan_run_sql(runs, scan_id, u, t0) ==
    [i \in DOMAIN runs |->
        IF i /= scan_id THEN runs[i]
        ELSE [started_at |-> runs[i].started_at,
              targets_count |-> runs[i].targets_count,
              status |-> IF IsNone(u.status) THEN runs[i].status ELSE Val(u.status),
              finished_at |-> IF u.finished_at THEN Some(t0) ELSE runs[i].finished_at,
              successful_targets |-> IF IsNone(u.successful_targets)
                                     THEN runs[i].successful_targets
                                     ELSE Val(u.successful_targets),
              failed_targets |-> IF IsNone(u.failed_targets)
                                 THEN runs[i].failed_targets
                                 ELSE Val(u.failed_targets),
              total_services |-> IF IsNone(u.total_services)
                                 THEN runs[i].total_services
                                 ELSE Val(u.total_services)]]

\* A WHERE clause without the status: every run that is old enough.
stuck_scans_any_status(runs, timeout_minutes, t0) == {i \in DOMAIN runs : runs[i].started_at < t0 - timeout_minutes}

\* WHERE status = 'running' AND started_at < now() - interval 't minutes'
stuck_scans(runs, timeout_minutes, t0) ==
    {i \in DOMAIN runs :
        runs[i].status = RUNNING /\ runs[i].started_at < t0 - timeout_minutes}

cleanup_stuck_scans_sql_nostamp(runs, timeout_minutes, t0) ==
    [i \in DOMAIN runs |->
        IF i \in stuck_scans(runs, timeout_minutes, t0)
        THEN [runs[i] EXCEPT !.status = TIMEOUT]
        ELSE runs[i]]

\* UPDATE scan_runs SET status = 'timeout', finished_at = now() WHERE ... (271-280)
cleanup_stuck_scans_sql(runs, timeout_minutes, t0) ==
    [i \in DOMAIN runs |->
        IF i \in stuck_scans(runs, timeout_minutes, t0)
        THEN [runs[i] EXCEPT !.status = TIMEOUT, !.finished_at = Some(t0)]
        ELSE runs[i]]

InBody(t, name) == pc[t] = "body" /\ op[t] = name

\* create_scan_run(targets_count)
CreateScanRun(t, targets_count, commit_ok) ==
    /\ InBody(t, "create_scan_run")
    /\ LET c == Val(conn[t])
           base == Base(c)
           scan_id == uuid4(base.scan_runs)
           work == [base EXCEPT !.scan_runs =
                        create_scan_run_sql(@, scan_id, targets_count, now)]
       IN /\ call' = [call EXCEPT ![t] = [name |-> "create_scan_run", scan_id |-> scan_id]]
          /\ Returned(t, c, work, TRUE, Some(scan_id), TRUE, commit_ok)
    /\ UNCHANGED <<now, pool, seqs, op, conn, cur, covars>>

\* update_scan_run(scan_id, status, successful_targets, failed_targets, total_services)
UpdateScanRun(t, scan_id, status, successful_targets, failed_targets, total_services, commit_ok) ==
    /\ InBody(t, "update_scan_run")
    /\ LET c == Val(conn[t])
           base == Base(c)
           u == update_scan_run_updates(status, successful_targets, failed_targets,
                                        total_services)
           work == [base EXCEPT !.scan_runs = update_scan_run_sql(@, scan_id, u, now)]
       IN /\ call' = [call EXCEPT ![t] = [name |-> "update_scan_run",
                                          scan_id |-> scan_id, status |-> status]]
          /\ IF update_scan_run_invalid(status)
             THEN Raised(t, c, "ValueError", FALSE)
             ELSE IF NoUpdates(u)
                  THEN Returned(t, c, base, FALSE, None, TRUE, commit_ok)
                  ELSE Returned(t, c, work, TRUE, None, TRUE, commit_ok)
    /\ UNCHANGED <<now, pool, seqs, op, conn, cur, covars>>

\* get_scan_run(scan_id): a read under get_cursor() without autocommit
GetScanRun(t, scan_id) ==
    /\ InBody(t, "get_scan_run")
    /\ LET c == Val(conn[t])
           base == Base(c)
       IN /\ call' = [call EXCEPT ![t] = [name |-> "get_scan_run", scan_id |-> scan_id]]
          /\ Returned(t, c, base, TRUE,
                      IF scan_id \in DOMAIN base.scan_runs
                      THEN Some(base.scan_runs[scan_id]) ELSE None,
                      FALSE, TRUE)
    /\ UNCHANGED <<now, pool, seqs, op, conn, cur, covars>>

\* cleanup_stuck_scans(timeout_minutes)
CleanupStuckScans(t, timeout_minutes, commit_ok) ==
    /\ InBody(t, "cleanup_stuck_scans")
    /\ LET c == Val(conn[t])
           base == Base(c)
           work == [base EXCEPT !.scan_runs =
                        cleanup_stuck_scans_sql(@, timeout_minutes, now)]
           count == Cardinality(stuck_scans(base.scan_runs, timeout_minutes, now))
       IN /\ call' = [call EXCEPT ![t] = [name |-> "cleanup_stuck_scans",
                                          timeout_minutes |-> timeout_minutes]]
          /\ Returned(t, c, work, TRUE, Some(count), TRUE, commit_ok)
    /\ UNCHANGED <<now, pool, seqs, op, conn, cur, covars>>

\* ------------------------------------------------------------------
\* Initial states
\* ------------------------------------------------------------------
\* The collector before run or run_once is called.
InitLocals ==
    /\ legacy = LegacyStart
    /\ pm = PoolModuleStart
    /\ should_exit = FALSE
    /\ cpc = "start"
    /\ cycle = 0
    /\ pi = 0
    /\ last_checkpoint = None
    /\ active_query = None
    /\ banner = None
    /\ yielded = 0
    /\ total_processed = 0
    /\ country_distribution = EmptyFn
    /\ naps = 0

\* The collector before it is started, over empty stores.
InitCollector ==
    /\ InitLocals
    /\ intel_stats = EmptyFn
    /\ intel_history = <<>>
    /\ raw_banners = {}

\* Module import (no pool yet), empty schema after init_db.
InitDbRest ==
    /\ legacy = LegacyStart
    /\ pm = PoolModuleStart
    /\ pool = NoPool
    /\ txn = [c \in Conns |-> IdleTxn]
    /\ store = EmptyStore
    /\ seqs = [targets |-> 0, services |-> 0]
    /\ pc = [t \in Threads |-> "idle"]
    /\ op = [t \in Threads |-> "none"]
    /\ conn = [t \in Threads |-> None]
    /\ cur = [t \in Threads |-> FALSE]
    /\ exc = [t \in Threads |-> None]
    /\ call = [t \in Threads |-> NoCall]
    /\ ret = [t \in Threads |-> None]

InitDbState ==
    /\ now = 0
    /\ InitDbRest

InitDb ==
    /\ InitCollector
    /\ InitDbState

\* ------------------------------------------------------------------
\* The scan-run ledger driven by the orchestrator and the reclaimer
\* ------------------------------------------------------------------
StatusArgs == {None, Some(""), Some(RUNNING), Some(COMPLETED), Some(FAILED),
               Some(TIMEOUT), Some("bogus")}
CountArgs == {None}
Timeouts == {0, 1}

HasFreeScanId == DOMAIN store.scan_runs /= ScanIds

LedgerEnter ==
    \/ HasFreeScanId /\ Enter("orchestrator", "create_scan_run")
    \/ Enter("orchestrator", "update_scan_run")
    \/ Enter("reclaimer", "cleanup_stuck_scans")

LedgerCreate == CreateScanRun("orchestrator", None, TRUE)

LedgerUpdate ==
    \E scan_id \in ScanIds, status \in StatusArgs, s \in CountArgs :
        UpdateScanRun("orchestrator", scan_id, status, s, None, None, TRUE)

LedgerCleanup == \E tm \in Timeouts : CleanupStuckScans("reclaimer", tm, TRUE)

LedgerExcept == \E t \in Threads : Except(t)

LedgerFinally == \E t \in Threads : Finally(t)

NextLedger ==
    \/ Tick
    \/ LedgerEnter
    \/ LedgerCreate
    \/ LedgerUpdate
    \/ LedgerCleanup
    \/ LedgerExcept
    \/ LedgerFinally

vars == <<dbvars, covars>>

SpecLedger == InitDb /\ [][NextLedger]_vars

\* ------------------------------------------------------------------
\* Properties of the scan-run ledger
\* ------------------------------------------------------------------
Runs == store.scan_runs

\* C1: every change of a run's status goes from running to completed, failed
\* or timeout, and once a run is terminal its status and finished-at never
\* change again.
C1_FinalizedOnce ==
    [][\A i \in DOMAIN Runs :
          /\ i \in DOMAIN Runs'
          /\ Runs'[i].status /= Runs[i].status
                => Runs[i].status = RUNNING /\ Runs'[i].status \in TerminalStatuses
          /\ Runs[i].status \in TerminalStatuses
                => /\ Runs'[i].status = Runs[i].status
                   /\ Runs'[i].finished_at = Runs[i].finished_at]_vars

\* The body of update_scan_run runs in this step, on an existing terminal run,
\* with status 'running'.
SetsRunningOnTerminal(t) ==
    /\ InBody(t, "update_scan_run")
    /\ pc'[t] /= "body"
    /\ call'[t].status = Some(RUNNING)
    /\ call'[t].scan_id \in DOMAIN Runs
    /\ Runs[call'[t].scan_id].status \in TerminalStatuses

\* C2: update_scan_run with status 'running' on a terminal run signals an
\* error and leaves the run's status and finished-at unchanged.
C2_RunningAfterTerminalRejected ==
    [][\A t \in Threads :
          SetsRunningOnTerminal(t)
              => /\ ~IsNone(exc'[t])
                 /\ Runs'[call'[t].scan_id].status = Runs[call'[t].scan_id].status
                 /\ Runs'[call'[t].scan_id].finished_at
                        = Runs[call'[t].scan_id].finished_at]_vars

\* C3: a scan run's finished-at is non-null if and only if its status is
\* terminal.
C3_FinishedIffTerminal ==
    \A i \in DOMAIN Runs :
        ~IsNone(Runs[i].finished_at) <=> Runs[i].status \in TerminalStatuses

\* The body of cleanup_stuck_scans runs in this step and returns.
CleanupReturns(t) == InBody(t, "cleanup_stuck_scans") /\ pc'[t] = "finally"

\* C10: cleanup_stuck_scans(t) sets status=timeout and finished-at=now on every
\* running run started earlier than now minus t minutes, and returns the number
\* of runs it changed.
C10_CleanupReclaims ==
    [][\A t \in Threads :
          CleanupReturns(t) =>
              /\ \A i \in DOMAIN Runs :
                    (Runs[i].status = RUNNING
                        /\ Runs[i].started_at + call'[t].timeout_minutes < now)
                    => /\ Runs'[i].status = TIMEOUT
                       /\ Runs'[i].finished_at = Some(now)
              /\ ret'[t] = Some(Cardinality({i \in DOMAIN Runs : Runs'[i] /= Runs[i]}))]_vars

\* cleanup_stuck_scans has just reclaimed two runs at once.
C10_Witness ==
    /\ pc["reclaimer"] = "finally"
    /\ call["reclaimer"].name = "cleanup_stuck_scans"
    /\ ret["reclaimer"] = Some(2)
    /\ \A i \in DOMAIN Runs : Runs[i].status = TIMEOUT /\ Runs[i].finished_at = Some(now)

\* ------------------------------------------------------------------
\* get_cursor under storage faults: conn.cursor(), cur.execute() and
\* conn.commit() may raise
\* ------------------------------------------------------------------
CursorStatusArgs == {None, Some(COMPLETED), Some("bogus")}

CursorEnter ==
    \/ HasFreeScanId /\ Enter("orchestrator", "create_scan_run")
    \/ Enter("orchestrator", "update_scan_run")
    \/ Enter("reclaimer", "get_scan_run")

CursorEnterFails ==
    \/ EnterCursorFails("orchestrator", "update_scan_run")
    \/ EnterCursorFails("reclaimer", "get_scan_run")

CursorCreate == \E ok \in BOOLEAN : CreateScanRun("orchestrator", None, ok)

CursorUpdate ==
    \E scan_id \in ScanIds, status \in CursorStatusArgs, ok \in BOOLEAN :
        UpdateScanRun("orchestrator", scan_id, status, None, None, None, ok)

CursorGet == \E scan_id \in ScanIds : GetScanRun("reclaimer", scan_id)

CursorStatementFails == \E t \in Threads : StatementFails(t)

CursorExcept == \E t \in Threads : Except(t)

CursorFinally == \E t \in Threads : Finally(t)

NextCursor ==
    \/ CursorEnter
    \/ CursorEnterFails
    \/ CursorCreate
    \/ CursorUpdate
    \/ CursorGet
    \/ CursorStatementFails
    \/ CursorExcept
    \/ CursorFinally

SpecCursor == InitDb /\ [][NextCursor]_vars

\* C8: every connection that is checked out of the pool is held by a call that
\* is still inside get_cursor: every exit path has returned its connection, and
\* with no call in progress no connection is checked out.
C8_ConnectionAlwaysReturned ==
    \A c \in pool.used : \E t \in Threads : pc[t] /= "idle" /\ conn[t] = Some(c)

\* Thread t takes a step of its call in this transition.
Steps(t) == pc'[t] /= pc[t] \/ call'[t] /= call[t]

\* C9: when an operation inside get_cursor fails, its transaction has been
\* rolled back by the time the connection is returned (the finally clause finds
\* no open transaction), the error the operation raised reaches the caller,
\* no step of the failed call changes the committed tables, and no pooled
\* connection carries an open transaction.
C9_FailureRolledBack ==
    /\ [](\A t \in Threads :
            pc[t] = "finally" /\ ~IsNone(exc[t]) => txn[Val(conn[t])] = IdleTxn)
    /\ [](\A c \in pool.idle : txn[c] = IdleTxn)
    /\ [][\A t \in Threads :
            /\ Steps(t) /\ pc'[t] = "except" => store' = store
            /\ Steps(t) /\ pc[t] = "except" => store' = store
            /\ Steps(t) /\ pc[t] = "finally" /\ ~IsNone(exc[t])
                 => /\ store' = store
                    /\ pc'[t] = "idle"
                    /\ ~IsNone(exc'[t])
                    /\ cur[t] => exc'[t] = exc[t] /\ Val(conn[t]) \notin pool'.used]_vars

\* A commit failed after the statement of create_scan_run had run: the call is
\* about to release a rolled-back connection, and the row is not in the table.
C9_Witness ==
    /\ pc["orchestrator"] = "finally"
    /\ op["orchestrator"] = "create_scan_run"
    /\ exc["orchestrator"] = Some("OperationalError")
    /\ call["orchestrator"].name = "create_scan_run"
    /\ call["orchestrator"].scan_id \notin DOMAIN Runs

\* ------------------------------------------------------------------
\* Targets (db.py 290-315)
\* ------------------------------------------------------------------
COALESCE(a, b) == IF IsNone(a) THEN b ELSE a

\* The foreign keys on scan_runs(id) and targets(id).
RunExists(tables, scan_run_id) == scan_run_id \in DOMAIN tables.scan_runs
TargetExists(tables, target_id) == \E r \in tables.targets : r.id = target_id

OrgOverwritten(old, asn, org, country, scan_run_id, t0) ==
    [old EXCEPT !.asn = COALESCE(asn, old.asn),
                !.org = org,
                !.country = COALESCE(country, old.country),
                !.last_seen = t0,
                !.last_scan_run_id = Some(scan_run_id)]

\* ON CONFLICT (ip) DO UPDATE SET ... (lines 303-308)
upsert_target_merge(old, asn, org, country, scan_run_id, t0) ==
    [old EXCEPT !.asn = COALESCE(asn, old.asn),
                !.org = COALESCE(org, old.org),
                !.country = COALESCE(country, old.country),
                !.last_seen = t0,
                !.last_scan_run_id = Some(scan_run_id)]

\* An INSERT that does not detect the stored address.
upsert_target_insert_only(tg, new_id, scan_run_id, ip, asn, org, country, t0) == tg \cup {[id |-> new_id, ip |-> ip, first_seen |-> t0, last_seen |-> t0, asn |-> asn, org |-> org, country |-> country, total_services |-> 0, last_scan_run_id |-> Some(scan_run_id)]}

\* INSERT INTO targets (ip, asn, org, country, last_scan_run_id) ... (299-311);
\* new_id is the value the id sequence delivers for the proposed row.
upsert_target_sql(tg, new_id, scan_run_id, ip, asn, org, country, t0) ==
    IF \E r \in tg : r.ip = ip
    THEN {IF r.ip = ip THEN upsert_target_merge(r, asn, org, country, scan_run_id, t0)
          ELSE r : r \in tg}
    ELSE tg \cup {[id |-> new_id,
                   ip |-> ip,
                   first_seen |-> t0,
                   last_seen |-> t0,
                   asn |-> asn,
                   org |-> org,
                   country |-> country,
                   total_services |-> 0,
                   last_scan_run_id |-> Some(scan_run_id)]}

\* RETURNING id
TargetId(tg, ip) == (CHOOSE r \in tg : r.ip = ip).id

\* upsert_target(scan_run_id, ip, asn, org, country)
UpsertTarget(t, scan_run_id, ip, asn, org, country, commit_ok) ==
    /\ InBody(t, "upsert_target")
    /\ seqs' = [seqs EXCEPT !.targets = @ + 1]
    /\ LET c == Val(conn[t])
           base == Base(c)
           tg == upsert_target_sql(base.targets, seqs.targets + 1, scan_run_id, ip,
                                   asn, org, country, now)
           work == [base EXCEPT !.targets = tg]
       IN /\ call' = [call EXCEPT ![t] = [name |-> "upsert_target", ip |-> ip,
                                          asn |-> asn, org |-> org, country |-> country]]
          /\ IF RunExists(base, scan_run_id)
             THEN Returned(t, c, work, TRUE, Some(TargetId(tg, ip)), TRUE, commit_ok)
             ELSE Raised(t, c, "IntegrityError", TRUE)
    /\ UNCHANGED <<now, pool, op, conn, cur, covars>>

\* ------------------------------------------------------------------
\* The state after init_db and one create_scan_run(): the run every target
\* and service row refers to
\* ------------------------------------------------------------------
InitRun ==
    /\ InitCollector
    /\ now = 0
    /\ pool = [exists |-> TRUE, idle |-> 1..MinConn, used |-> {}]
    /\ txn = [c \in Conns |-> IdleTxn]
    /\ store = [EmptyStore EXCEPT !.scan_runs =
                   create_scan_run_sql(EmptyFn, 1, None, 0)]
    /\ seqs = [targets |-> 0, services |-> 0]
    /\ pc = [t \in Threads |-> "idle"]
    /\ op = [t \in Threads |-> "none"]
    /\ conn = [t \in Threads |-> None]
    /\ cur = [t \in Threads |-> FALSE]
    /\ exc = [t \in Threads |-> None]
    /\ call = [t \in Threads |-> NoCall]
    /\ ret = [t \in Threads |-> None]

\* ------------------------------------------------------------------
\* upsert_target called by the orchestrator
\* ------------------------------------------------------------------
RunArgs == {1, 2}
Ips == {"10.0.0.5", "10.0.0.6"}
AsnArgs == {None, Some("AS64500")}
OrgArgs == {None, Some("ExampleOrg"), Some("OtherOrg")}
CountryArgs == {None, Some("IT")}

TargetsEnter == seqs.targets < MaxSeq /\ Enter("orchestrator", "upsert_target")

TargetsUpsert ==
    \E scan_run_id \in RunArgs, ip \in Ips, asn \in AsnArgs, org \in OrgArgs,
       country \in CountryArgs :
        UpsertTarget("orchestrator", scan_run_id, ip, asn, org, country, TRUE)

TargetsExcept == Except("orchestrator")

TargetsFinally == Finally("orchestrator")

NextTargets ==
    \/ Tick
    \/ TargetsEnter
    \/ TargetsUpsert
    \/ TargetsExcept
    \/ TargetsFinally

SpecTargets == InitRun /\ [][NextTargets]_vars

Targets == store.targets

\* upsert_target runs and returns in this step.
UpsertReturns(t) == InBody(t, "upsert_target") /\ pc'[t] = "finally"

\* The stored value `new` of a metadata field after a step, given the value
\* `old` before it: it never goes back to null, and an upsert_target call on
\* the row keeps it when it passes None and replaces it otherwise.
FieldKept(old, new, called, arg) ==
    /\ ~IsNone(old) => ~IsNone(new)
    /\ called => new = (IF IsNone(arg) THEN old ELSE arg)
    /\ ~called => new = old

\* C7: over any sequence of upsert_target calls on an address, asn, org and
\* country never go from non-null to null: None keeps the stored value, a
\* non-null value replaces it.
C7_MetadataNeverNulled ==
    [][\A r \in Targets : \E n \in Targets' :
          /\ n.ip = r.ip
          /\ LET called == UpsertReturns("orchestrator")
                            /\ call'["orchestrator"].ip = r.ip
                 a == call'["orchestrator"]
             IN /\ FieldKept(r.asn, n.asn, called, IF called THEN a.asn ELSE None)
                /\ FieldKept(r.org, n.org, called, IF called THEN a.org ELSE None)
                /\ FieldKept(r.country, n.country, called,
                             IF called THEN a.country ELSE None)]_vars

\* upsert_target(org=None) has just run on a row whose org is 'ExampleOrg'.
C7_Witness ==
    /\ pc["orchestrator"] = "finally"
    /\ call["orchestrator"].name = "upsert_target"
    /\ call["orchestrator"].org = None
    /\ \E r \in Targets : r.ip = call["orchestrator"].ip /\ r.org = Some("ExampleOrg")

\* ------------------------------------------------------------------
\* Services (db.py 334-380)
\* ------------------------------------------------------------------
SameKey(r, target_id, port, transport) ==
    r.target_id = target_id /\ r.port = port /\ r.transport = transport

\* A table without the CHECK constraint on risk_score.
risk_score_unconstrained(risk_score) == TRUE

\* services.risk_score CHECK (risk_score >= 0 AND risk_score <= 100)
risk_score_check(risk_score) == risk_score >= 0 /\ risk_score <= 100

\* A validation that accepts every risk score.
insert_service_unchecked(risk_score) == FALSE

\* line 348: `if not (0 <= risk_score <= 100): raise ValueError`
insert_service_invalid(risk_score) == ~(0 <= risk_score /\ risk_score <= 100)

ConflictDoNothing(old, scan_run_id, product, version, cpe, vulns, risk_score, t0) == old

\* A DO UPDATE that takes the descriptive fields from the incoming row.
insert_service_overwrite(old, scan_run_id, product, version, cpe, vulns, risk_score, t0) == [old EXCEPT !.product = product, !.version = version, !.cpe = cpe, !.vulns = vulns, !.risk_score = risk_score, !.scan_run_id = scan_run_id, !.updated_at = t0]

\* ON CONFLICT (target_id, port, transport) DO UPDATE SET ... (lines 356-364)
insert_service_merge(old, scan_run_id, product, version, cpe, vulns, risk_score, t0) ==
    [old EXCEPT !.product = COALESCE(product, old.product),
                !.version = COALESCE(version, old.version),
                !.cpe = COALESCE(cpe, old.cpe),
                !.vulns = vulns,
                !.risk_score = risk_score,
                !.scan_run_id = scan_run_id,
                !.updated_at = t0]

\* The row INSERT INTO services proposes (lines 353-355); the timestamps take
\* their default now().
ServiceRow(new_id, scan_run_id, target_id, port, transport, product, version, cpe, vulns, risk_score, t0) ==
    [id |-> new_id,
     scan_run_id |-> scan_run_id,
     target_id |-> target_id,
     port |-> port,
     transport |-> transport,
     product |-> product,
     version |-> version,
     cpe |-> cpe,
     vulns |-> vulns,
     risk_score |-> risk_score,
     timestamp |-> t0,
     created_at |-> t0,
     updated_at |-> t0]

\* INSERT INTO services ... ON CONFLICT ... DO UPDATE (lines 351-378)
insert_service_sql(sv, row) ==
    IF \E r \in sv : SameKey(r, row.target_id, row.port, row.transport)
    THEN {IF SameKey(r, row.target_id, row.port, row.transport)
          THEN insert_service_merge(r, row.scan_run_id, row.product, row.version,
                                    row.cpe, row.vulns, row.risk_score, row.updated_at)
          ELSE r : r \in sv}
    ELSE sv \cup {row}

\* insert_service(scan_run_id, target_id, port, transport, product, version,
\*                cpe, vulns, risk_score)
InsertService(t, scan_run_id, target_id, port, transport, product, version, cpe, vulns, risk_score, commit_ok) ==
    /\ InBody(t, "insert_service")
    /\ LET c == Val(conn[t])
           base == Base(c)
           row == ServiceRow(seqs.services + 1, scan_run_id, target_id, port, transport,
                             product, version, cpe, vulns, risk_score, now)
           work == [base EXCEPT !.services = insert_service_sql(@, row)]
       IN /\ call' = [call EXCEPT ![t] = [name |-> "insert_service", row |-> row]]
          /\ IF insert_service_invalid(risk_score)
             THEN /\ Raised(t, c, "ValueError", FALSE)
                  /\ seqs' = seqs
             ELSE /\ seqs' = [seqs EXCEPT !.services = @ + 1]
                  /\ IF RunExists(base, scan_run_id) /\ TargetExists(base, target_id) /\ risk_score_check(risk_score)
                     THEN Returned(t, c, work, TRUE, None, TRUE, commit_ok)
                     ELSE Raised(t, c, "IntegrityError", TRUE)
    /\ UNCHANGED <<now, pool, op, conn, cur, covars>>

\* ------------------------------------------------------------------
\* The state after init_db, create_scan_run() and
\* upsert_target(run, '10.0.0.5'): one run and one target to refer to
\* ------------------------------------------------------------------
InitTarget ==
    /\ InitCollector
    /\ now = 0
    /\ pool = [exists |-> TRUE, idle |-> 1..MinConn, used |-> {}]
    /\ txn = [c \in Conns |-> IdleTxn]
    /\ store = [EmptyStore EXCEPT
                   !.scan_runs = create_scan_run_sql(EmptyFn, 1, None, 0),
                   !.targets = upsert_target_sql({}, 1, 1, "10.0.0.5", None, None, None, 0)]
    /\ seqs = [targets |-> 1, services |-> 0]
    /\ pc = [t \in Threads |-> "idle"]
    /\ op = [t \in Threads |-> "none"]
    /\ conn = [t \in Threads |-> None]
    /\ cur = [t \in Threads |-> FALSE]
    /\ exc = [t \in Threads |-> None]
    /\ call = [t \in Threads |-> NoCall]
    /\ ret = [t \in Threads |-> None]

\* ------------------------------------------------------------------
\* insert_service called by the orchestrator
\* ------------------------------------------------------------------
TargetArgs == {1, 2}
Endpoints == {<<5432, "tcp">>, <<6379, "tcp">>, <<5432, "udp">>}
VulnArgs == {<<>>, <<"CVE-2021-44228">>}
RiskArgs == {-1, 0, 100, 101}

ServicesEnter == seqs.services < MaxSeq /\ Enter("orchestrator", "insert_service")

ServicesInsert ==
    \E target_id \in TargetArgs, ep \in Endpoints, vulns \in VulnArgs,
       risk_score \in RiskArgs :
        InsertService("orchestrator", 1, target_id, ep[1], ep[2],
                      None, None, None, vulns, risk_score, TRUE)

ServicesExcept == Except("orchestrator")

ServicesFinally == Finally("orchestrator")

NextServices ==
    \/ Tick
    \/ ServicesEnter
    \/ ServicesInsert
    \/ ServicesExcept
    \/ ServicesFinally

SpecServices == InitTarget /\ [][NextServices]_vars

Services == store.services

RowsOfKey(sv, k) == {r \in sv : SameKey(r, k.target_id, k.port, k.transport)}

\* insert_service runs and returns in this step.
InsertReturns(t) == InBody(t, "insert_service") /\ pc'[t] = "finally"

\* C5: after any sequence of insert_service calls with the same (target_id,
\* port, transport) key exactly one row exists for the key, holding the
\* vulnerabilities and the risk score of the latest call that was accepted
\* (a call rejected by validation or by a foreign key stores nothing); no
\* other step changes them.
C5_UpsertLatestWins ==
    /\ [](\A r1 \in Services, r2 \in Services :
            SameKey(r1, r2.target_id, r2.port, r2.transport) => r1 = r2)
    /\ [][/\ \A t \in Threads :
              InsertReturns(t) =>
                  /\ Cardinality(RowsOfKey(Services', call'[t].row)) = 1
                  /\ \A r \in RowsOfKey(Services', call'[t].row) :
                        /\ r.vulns = call'[t].row.vulns
                        /\ r.risk_score = call'[t].row.risk_score
          /\ \A r \in Services :
                  (\A t \in Threads :
                      ~(InsertReturns(t) /\ SameKey(r, call'[t].row.target_id,
                                                    call'[t].row.port,
                                                    call'[t].row.transport)))
                  => \E n \in Services' :
                        /\ n.id = r.id
                        /\ SameKey(n, r.target_id, r.port, r.transport)
                        /\ n.vulns = r.vulns
                        /\ n.risk_score = r.risk_score]_vars

\* A second insert_service on an existing key has just replaced the row's
\* vulnerabilities and risk score.
C5_Witness ==
    /\ pc["orchestrator"] = "finally"
    /\ call["orchestrator"].name = "insert_service"
    /\ \E r \in Services :
          /\ SameKey(r, call["orchestrator"].row.target_id,
                     call["orchestrator"].row.port, call["orchestrator"].row.transport)
          /\ r.id < call["orchestrator"].row.id
          /\ r.risk_score = 100
          /\ r.vulns = <<"CVE-2021-44228">>
          /\ r.created_at < r.updated_at

\* ------------------------------------------------------------------
\* The intelligence stores written by the collector
\* (save_raw_banner, update_intel_stats, log_intel_history and
\* get_last_checkpoint are imported by collector.py from shodan_monitor.db)
\* ------------------------------------------------------------------
MaxFeed == 1        \* banners the source yields in one pass, at most
MaxCycles == 2      \* cycles of the main loop
MaxNaps == 2        \* polling steps that make up the inter-cycle interval

\* The configured profiles, in file order; the second one has no query.
Profiles == << [name |-> "web-exposed-db", query |-> Some("port:5432,6379")], [name |-> "no-query", query |-> None], [name |-> "rdp", query |-> Some("port:3389")] >>

ProfileNames == {Profiles[i].name : i \in 1..Len(Profiles)}

\* Banners the source can yield: the first two are the same observation with
\* different auxiliary fields, the third differs in the observation time only,
\* the fourth in the port only.
Banners == { [ip_str |-> "10.0.0.5", port |-> 5432, timestamp |-> "t1", location |-> Some("IT")], [ip_str |-> "10.0.0.5", port |-> 5432, timestamp |-> "t1", location |-> None], [ip_str |-> "10.0.0.5", port |-> 5432, timestamp |-> "t2", location |-> Some("IT")], [ip_str |-> "10.0.0.5", port |-> 6379, timestamp |-> "t1", location |-> Some("US")] }

\* str(port)
PortStr(port) == IF port = 5432 THEN "5432" ELSE IF port = 6379 THEN "6379" ELSE "?"

\* A digest that leaves the observation time out of the identity.
DigestNoTime(b) == <<b.ip_str, ":", PortStr(b.port)>>

\* The digest of the text address:port:observation-time; the hash is taken
\* to be free of collisions, so the digest is the text itself.
Digest(b) == <<b.ip_str, ":", PortStr(b.port), ":", b.timestamp>>

\* The document stored for a banner.
RawDocument(b, profile_name, t0) == [_id |-> Digest(b), ip_str |-> b.ip_str, port |-> b.port, timestamp |-> b.timestamp, location |-> b.location, profile_name |-> profile_name, collected_at |-> t0, processed |-> FALSE]

\* save_raw_banner: replace the document of the same digest, or insert it.
save_raw_banner(coll, b, profile_name, t0) == {d \in coll : d._id # Digest(b)} \cup {RawDocument(b, profile_name, t0)}

\* get_last_checkpoint: the checkpoint of the profile's aggregate, if any.
get_last_checkpoint(stats, name) == IF name \in DOMAIN stats THEN Some(stats[name].last_checkpoint) ELSE None

\* update_intel_stats: write the aggregate and the new checkpoint.
update_intel_stats(stats, name, count, countries, t0) == [p \in DOMAIN stats \cup {name} |-> IF p = name THEN [total_count |-> count, country_distribution |-> countries, last_checkpoint |-> t0] ELSE stats[p]]

\* log_intel_history: append one history point.
log_intel_history(hist, name, count, t0) == Append(hist, [profile_name |-> name, count |-> count, observed_at |-> t0])

\* ------------------------------------------------------------------
\* ShodanCollector (collector.py): run, collect_all_profiles,
\* _process_profile, one action per step between two reads of the
\* shutdown flag or two calls that can raise
\* ------------------------------------------------------------------
\* The profile being processed.
Name == Profiles[pi].name

\* Ticks of the clock in one day.
TicksPerDay == 2

\* A format that keeps the time of day.
datetime_str(ts) == ts

\* last_checkpoint.strftime("%d/%m/%Y"): the day of the timestamp.
date_str(ts) == ts \div TicksPerDay

\* Lines 106-114: the base query, narrowed when a checkpoint exists.
build_query(base_query, checkpoint) == IF IsNone(checkpoint) THEN [base |-> base_query, after |-> None] ELSE [base |-> base_query, after |-> Some(date_str(Val(checkpoint)))]

\* Lines 126-127: the country a banner is tallied under.
country_code(b) == IF IsNone(b.location) THEN "Unknown" ELSE Val(b.location)

\* A histogram that records a country once, however often it is seen.
tally_presence(dist, code) == [c \in DOMAIN dist \cup {code} |-> IF c = code THEN 1 ELSE dist[c]]

\* Line 129: country_distribution[code] = country_distribution.get(code, 0) + 1
tally(dist, code) == [c \in DOMAIN dist \cup {code} |-> IF c = code THEN (IF c \in DOMAIN dist THEN dist[c] + 1 ELSE 1) ELSE dist[c]]

\* _process_profile returns to the loop of collect_all_profiles (line 84);
\* its locals are gone.
Return ==
    /\ last_checkpoint' = None
    /\ active_query' = None
    /\ banner' = None
    /\ yielded' = 0
    /\ total_processed' = 0
    /\ country_distribution' = EmptyFn
    /\ pi' = pi + 1
    /\ cpc' = "profiles"

\* Line 45: entering the GracefulShutdown context installs the handlers.
RunStart ==
    /\ cpc = "start"
    /\ cpc' = "loop"
    /\ UNCHANGED <<now, dbrest, should_exit, cycle, pi, last_checkpoint, active_query, banner, yielded, total_processed, country_distribution, naps, intel_stats, intel_history, raw_banners>>

\* utils.py 26-28: a signal sets the flag, at any point of the run.
Signal ==
    /\ cpc \notin {"start", "closed", "crashed"}
    /\ ~should_exit
    /\ should_exit' = TRUE
    /\ UNCHANGED <<now, dbrest, cpc, cycle, pi, last_checkpoint, active_query, banner, yielded, total_processed, country_distribution, naps, intel_stats, intel_history, raw_banners>>

\* Line 46 with the flag set: the loop is left.
LoopExit ==
    /\ cpc = "loop"
    /\ should_exit
    /\ cpc' = "shutdown"
    /\ UNCHANGED <<now, dbrest, should_exit, cycle, pi, last_checkpoint, active_query, banner, yielded, total_processed, country_distribution, naps, intel_stats, intel_history, raw_banners>>

\* Lines 46-49 and 82: a cycle starts with the first profile.
CycleStart ==
    /\ cpc = "loop"
    /\ ~should_exit
    /\ cycle < MaxCycles
    /\ cycle' = cycle + 1
    /\ pi' = 1
    /\ cpc' = "profiles"
    /\ UNCHANGED <<now, dbrest, should_exit, last_checkpoint, active_query, banner, yielded, total_processed, country_distribution, naps, intel_stats, intel_history, raw_banners>>

\* Lines 84-86: the list is exhausted or the flag is set.
ProfilesDone ==
    /\ cpc = "profiles"
    /\ pi > Len(Profiles) \/ should_exit
    /\ cpc' = "quota"
    /\ UNCHANGED <<now, dbrest, should_exit, cycle, pi, last_checkpoint, active_query, banner, yielded, total_processed, country_distribution, naps, intel_stats, intel_history, raw_banners>>

\* Lines 88-93: a profile without a query is skipped.
ProfileSkipped ==
    /\ cpc = "profiles"
    /\ pi <= Len(Profiles)
    /\ ~should_exit
    /\ IsNone(Profiles[pi].query)
    /\ pi' = pi + 1
    /\ UNCHANGED <<now, dbrest, should_exit, cpc, cycle, last_checkpoint, active_query, banner, yielded, total_processed, country_distribution, naps, intel_stats, intel_history, raw_banners>>

\* Lines 95-102: _process_profile is entered with fresh statistics.
ProfileStart ==
    /\ cpc = "profiles"
    /\ pi <= Len(Profiles)
    /\ ~should_exit
    /\ ~IsNone(Profiles[pi].query)
    /\ total_processed' = 0
    /\ cpc' = "checkpoint"
    /\ UNCHANGED <<now, dbrest, should_exit, cycle, pi, last_checkpoint, active_query, banner, yielded, country_distribution, naps, intel_stats, intel_history, raw_banners>>

\* Lines 105-116: the checkpoint is read and the query is built.
GetCheckpoint ==
    /\ cpc = "checkpoint"
    /\ last_checkpoint' = get_last_checkpoint(intel_stats, Name)
    /\ active_query' = Some(build_query(Val(Profiles[pi].query), last_checkpoint'))
    /\ country_distribution' = EmptyFn
    /\ yielded' = 0
    /\ banner' = None
    /\ cpc' = "stream"
    /\ UNCHANGED <<now, dbrest, should_exit, cycle, pi, total_processed, naps, intel_stats, intel_history, raw_banners>>

\* Line 105 raises: the call is outside the try of line 118, the exception
\* leaves _process_profile, collect_all_profiles and run.
GetCheckpointFails ==
    /\ cpc = "checkpoint"
    /\ cpc' = "crashed"
    /\ UNCHANGED <<now, dbrest, should_exit, cycle, pi, last_checkpoint, active_query, banner, yielded, total_processed, country_distribution, naps, intel_stats, intel_history, raw_banners>>

\* Banners the source yields in one pass, at most: a pass checked on its
\* own, outside the cycles of a run (cycle 0), is given one banner more.
FeedLimit == IF cycle = 0 THEN MaxFeed + 1 ELSE MaxFeed

\* Line 119, shodan_client.py 60-61: the source yields the next banner.
StreamYield ==
    /\ cpc = "stream"
    /\ yielded < FeedLimit
    /\ \E b \in Banners : banner' = Some(b)
    /\ yielded' = yielded + 1
    /\ cpc' = "check"
    /\ UNCHANGED <<now, dbrest, should_exit, cycle, pi, last_checkpoint, active_query, total_processed, country_distribution, naps, intel_stats, intel_history, raw_banners>>

\* Line 119: the source is exhausted, the loop ends normally.
StreamEnd ==
    /\ cpc = "stream"
    /\ banner' = None
    /\ cpc' = "stats"
    /\ UNCHANGED <<now, dbrest, should_exit, cycle, pi, last_checkpoint, active_query, yielded, total_processed, country_distribution, naps, intel_stats, intel_history, raw_banners>>

\* Line 119, shodan_client.py 69-71: the source raises, at the first
\* banner or in mid-iteration.
StreamFails ==
    /\ cpc = "stream"
    /\ banner' = None
    /\ cpc' = "error"
    /\ UNCHANGED <<now, dbrest, should_exit, cycle, pi, last_checkpoint, active_query, yielded, total_processed, country_distribution, naps, intel_stats, intel_history, raw_banners>>

\* Lines 120-121 with the flag set: break; control falls to line 135.
ShutdownBreak ==
    /\ cpc = "check"
    /\ should_exit
    /\ cpc' = "stats"
    /\ UNCHANGED <<now, dbrest, should_exit, cycle, pi, last_checkpoint, active_query, banner, yielded, total_processed, country_distribution, naps, intel_stats, intel_history, raw_banners>>

\* A streaming loop that does not read the flag.
ShutdownIgnored ==
    /\ cpc = "check"
    /\ cpc' = "save"
    /\ UNCHANGED <<now, dbrest, should_exit, cycle, pi, last_checkpoint, active_query, banner, yielded, total_processed, country_distribution, naps, intel_stats, intel_history, raw_banners>>

\* Line 120 with the flag clear.
ShutdownNotSeen ==
    /\ cpc = "check"
    /\ ~should_exit
    /\ cpc' = "save"
    /\ UNCHANGED <<now, dbrest, should_exit, cycle, pi, last_checkpoint, active_query, banner, yielded, total_processed, country_distribution, naps, intel_stats, intel_history, raw_banners>>

\* Line 123: the banner is persisted.
SaveBanner ==
    /\ cpc = "save"
    /\ raw_banners' = save_raw_banner(raw_banners, Val(banner), Name, now)
    /\ cpc' = "tally"
    /\ UNCHANGED <<now, dbrest, should_exit, cycle, pi, last_checkpoint, active_query, banner, yielded, total_processed, country_distribution, naps, intel_stats, intel_history>>

\* A failed write that is passed over and counted.
SaveBannerFailureCounted ==
    /\ cpc = "save"
    /\ cpc' = "tally"
    /\ UNCHANGED <<now, dbrest, should_exit, cycle, pi, last_checkpoint, active_query, banner, yielded, total_processed, country_distribution, naps, intel_stats, intel_history, raw_banners>>

\* Line 123 raises: nothing around the call catches it but line 140.
SaveBannerFails ==
    /\ cpc = "save"
    /\ cpc' = "error"
    /\ UNCHANGED <<now, dbrest, should_exit, cycle, pi, last_checkpoint, active_query, banner, yielded, total_processed, country_distribution, naps, intel_stats, intel_history, raw_banners>>

\* Lines 125-129: the running tally.
Tally ==
    /\ cpc = "tally"
    /\ total_processed' = total_processed + 1
    /\ country_distribution' = tally(country_distribution, country_code(Val(banner)))
    /\ cpc' = "stream"
    /\ UNCHANGED <<now, dbrest, should_exit, cycle, pi, last_checkpoint, active_query, banner, yielded, naps, intel_stats, intel_history, raw_banners>>

\* Line 135: the aggregate is written and the checkpoint is set.
UpdateIntelStats ==
    /\ cpc = "stats"
    /\ intel_stats' = update_intel_stats(intel_stats, Name, total_processed, country_distribution, now)
    /\ cpc' = "history"
    /\ UNCHANGED <<now, dbrest, should_exit, cycle, pi, last_checkpoint, active_query, banner, yielded, total_processed, country_distribution, naps, intel_history, raw_banners>>

\* Line 135 raises.
UpdateIntelStatsFails ==
    /\ cpc = "stats"
    /\ cpc' = "error"
    /\ UNCHANGED <<now, dbrest, should_exit, cycle, pi, last_checkpoint, active_query, banner, yielded, total_processed, country_distribution, naps, intel_stats, intel_history, raw_banners>>

\* Lines 136-138: the history point is appended and the pass is complete.
LogIntelHistory ==
    /\ cpc = "history"
    /\ intel_history' = log_intel_history(intel_history, Name, total_processed, now)
    /\ Return
    /\ UNCHANGED <<now, dbrest, should_exit, cycle, naps, intel_stats, raw_banners>>

\* Line 136 raises, after line 135 has been executed.
LogIntelHistoryFails ==
    /\ cpc = "history"
    /\ cpc' = "error"
    /\ UNCHANGED <<now, dbrest, should_exit, cycle, pi, last_checkpoint, active_query, banner, yielded, total_processed, country_distribution, naps, intel_stats, intel_history, raw_banners>>

\* Lines 140-142: the error branch; the pass returns to the profile loop.
ErrorBranch ==
    /\ cpc = "error"
    /\ Return
    /\ UNCHANGED <<now, dbrest, should_exit, cycle, naps, intel_stats, intel_history, raw_banners>>

\* Line 52 with the flag clear: the quota report is entered.
QuotaReport ==
    /\ cpc = "quota"
    /\ ~should_exit
    /\ cpc' = "api_info"
    /\ UNCHANGED <<now, dbrest, should_exit, cycle, pi, last_checkpoint, active_query, banner, yielded, total_processed, country_distribution, naps, intel_stats, intel_history, raw_banners>>

\* Line 52 with the flag set: the quota report is skipped.
QuotaSkipped ==
    /\ cpc = "quota"
    /\ should_exit
    /\ cpc' = "postquota"
    /\ UNCHANGED <<now, dbrest, should_exit, cycle, pi, last_checkpoint, active_query, banner, yielded, total_processed, country_distribution, naps, intel_stats, intel_history, raw_banners>>

\* Lines 54-60: the quota snapshot is fetched and logged (get_api_info
\* answers an APIError with an empty snapshot, which is logged as N/A).
GetApiInfo ==
    /\ cpc = "api_info"
    /\ cpc' = "postquota"
    /\ UNCHANGED <<now, dbrest, should_exit, cycle, pi, last_checkpoint, active_query, banner, yielded, total_processed, country_distribution, naps, intel_stats, intel_history, raw_banners>>

\* Lines 54-60 raise: the request fails with another error than APIError,
\* or a field of the snapshot cannot be logged.
GetApiInfoFails ==
    /\ cpc = "api_info"
    /\ cpc' = "quota_except"
    /\ UNCHANGED <<now, dbrest, should_exit, cycle, pi, last_checkpoint, active_query, banner, yielded, total_processed, country_distribution, naps, intel_stats, intel_history, raw_banners>>

\* A quota report without a handler: the error leaves run.
QuotaUncaught ==
    /\ cpc = "quota_except"
    /\ cpc' = "crashed"
    /\ UNCHANGED <<now, dbrest, should_exit, cycle, pi, last_checkpoint, active_query, banner, yielded, total_processed, country_distribution, naps, intel_stats, intel_history, raw_banners>>

\* Lines 62-63: except Exception logs a warning.
QuotaWarning ==
    /\ cpc = "quota_except"
    /\ cpc' = "postquota"
    /\ UNCHANGED <<now, dbrest, should_exit, cycle, pi, last_checkpoint, active_query, banner, yielded, total_processed, country_distribution, naps, intel_stats, intel_history, raw_banners>>

\* Lines 66-67: the flag is set, the loop is left.
QuotaBreak ==
    /\ cpc = "postquota"
    /\ should_exit
    /\ cpc' = "shutdown"
    /\ UNCHANGED <<now, dbrest, should_exit, cycle, pi, last_checkpoint, active_query, banner, yielded, total_processed, country_distribution, naps, intel_stats, intel_history, raw_banners>>

\* Lines 69-73: the inter-cycle sleep begins.
SleepStart ==
    /\ cpc = "postquota"
    /\ ~should_exit
    /\ naps' = 0
    /\ cpc' = "sleep"
    /\ UNCHANGED <<now, dbrest, should_exit, cycle, pi, last_checkpoint, active_query, banner, yielded, total_processed, country_distribution, intel_stats, intel_history, raw_banners>>

\* A sleep that polls without reading the flag.
SleepPollUnchecked ==
    /\ cpc = "sleep"
    /\ naps < MaxNaps
    /\ naps' = naps + 1
    /\ UNCHANGED <<now, dbrest, should_exit, cpc, cycle, pi, last_checkpoint, active_query, banner, yielded, total_processed, country_distribution, intel_stats, intel_history, raw_banners>>

\* Lines 74-75: one polling step of the sleep.
SleepPoll ==
    /\ cpc = "sleep"
    /\ naps < MaxNaps
    /\ ~should_exit
    /\ naps' = naps + 1
    /\ UNCHANGED <<now, dbrest, should_exit, cpc, cycle, pi, last_checkpoint, active_query, banner, yielded, total_processed, country_distribution, intel_stats, intel_history, raw_banners>>

\* Line 74: the interval has elapsed or the flag is set.
SleepEnd ==
    /\ cpc = "sleep"
    /\ (naps = MaxNaps \/ should_exit)
    /\ naps' = 0
    /\ cpc' = "loop"
    /\ UNCHANGED <<now, dbrest, should_exit, cycle, pi, last_checkpoint, active_query, banner, yielded, total_processed, country_distribution, intel_stats, intel_history, raw_banners>>

\* Lines 77-78: close_connections after the loop.
CloseConnections ==
    /\ cpc = "shutdown"
    /\ cpc' = "closed"
    /\ UNCHANGED <<now, dbrest, should_exit, cycle, pi, last_checkpoint, active_query, banner, yielded, total_processed, country_distribution, naps, intel_stats, intel_history, raw_banners>>

NextCollector ==
    \/ RunStart
    \/ Signal
    \/ LoopExit
    \/ CycleStart
    \/ ProfilesDone
    \/ ProfileSkipped
    \/ ProfileStart
    \/ GetCheckpoint
    \/ GetCheckpointFails
    \/ StreamYield
    \/ StreamEnd
    \/ StreamFails
    \/ ShutdownBreak
    \/ ShutdownNotSeen
    \/ SaveBanner
    \/ SaveBannerFails
    \/ Tally
    \/ UpdateIntelStats
    \/ UpdateIntelStatsFails
    \/ LogIntelHistory
    \/ LogIntelHistoryFails
    \/ ErrorBranch
    \/ QuotaReport
    \/ QuotaSkipped
    \/ GetApiInfo
    \/ GetApiInfoFails
    \/ QuotaWarning
    \/ QuotaBreak
    \/ SleepStart
    \/ SleepPoll
    \/ SleepEnd
    \/ CloseConnections
    \/ Tick

\* The collector running against empty stores.
SpecCollector == InitDb /\ [][NextCollector]_vars

\* The collector before it is started, with one cycle left within the
\* bound on cycles.
InitLastCycle ==
    /\ InitDbState
    /\ should_exit = FALSE
    /\ cpc = "start"
    /\ cycle = MaxCycles - 1
    /\ pi = 0
    /\ last_checkpoint = None
    /\ active_query = None
    /\ banner = None
    /\ yielded = 0
    /\ total_processed = 0
    /\ country_distribution = EmptyFn
    /\ naps = 0
    /\ intel_stats = EmptyFn
    /\ intel_history = <<>>
    /\ raw_banners = {}

\* run over one cycle: profiles, quota report, sleep, shutdown.
SpecLastCycle == InitLastCycle /\ [][NextCollector]_vars

\* A step of the collector's thread: every step but the arrival of a
\* signal and the passing of time.
CollectorStep ==
    \/ RunStart
    \/ LoopExit
    \/ CycleStart
    \/ ProfilesDone
    \/ ProfileSkipped
    \/ ProfileStart
    \/ GetCheckpoint
    \/ GetCheckpointFails
    \/ StreamYield
    \/ StreamEnd
    \/ StreamFails
    \/ ShutdownBreak
    \/ ShutdownNotSeen
    \/ SaveBanner
    \/ SaveBannerFails
    \/ Tally
    \/ UpdateIntelStats
    \/ UpdateIntelStatsFails
    \/ LogIntelHistory
    \/ LogIntelHistoryFails
    \/ ErrorBranch
    \/ QuotaReport
    \/ QuotaSkipped
    \/ GetApiInfo
    \/ GetApiInfoFails
    \/ QuotaWarning
    \/ QuotaBreak
    \/ SleepStart
    \/ SleepPoll
    \/ SleepEnd
    \/ CloseConnections

\* The interpreter keeps running the collector's thread: every call of
\* the loop returns or raises, and time.sleep(5) returns.  The clock
\* stands still: no guard of run reads it but the sleep, whose interval
\* is counted in polling steps.
FairLastCycle == InitLastCycle /\ [][CollectorStep \/ Signal]_vars /\ WF_vars(CollectorStep)

\* The collector at the quota report that ends a cycle in which no pass
\* stored anything, with one more cycle within the bound on cycles.
InitQuota ==
    /\ InitDbState
    /\ should_exit = FALSE
    /\ cpc = "quota"
    /\ cycle = MaxCycles - 1
    /\ pi = Len(Profiles) + 1
    /\ last_checkpoint = None
    /\ active_query = None
    /\ banner = None
    /\ yielded = 0
    /\ total_processed = 0
    /\ country_distribution = EmptyFn
    /\ naps = 0
    /\ intel_stats = EmptyFn
    /\ intel_history = <<>>
    /\ raw_banners = {}

\* The steps of the loop of run (lines 46-75).
LoopStep ==
    \/ LoopExit
    \/ CycleStart
    \/ ProfilesDone
    \/ ProfileSkipped
    \/ ProfileStart
    \/ GetCheckpoint
    \/ GetCheckpointFails
    \/ StreamYield
    \/ StreamEnd
    \/ StreamFails
    \/ ShutdownBreak
    \/ ShutdownNotSeen
    \/ SaveBanner
    \/ SaveBannerFails
    \/ Tally
    \/ UpdateIntelStats
    \/ UpdateIntelStatsFails
    \/ LogIntelHistory
    \/ LogIntelHistoryFails
    \/ ErrorBranch
    \/ QuotaReport
    \/ QuotaSkipped
    \/ GetApiInfo
    \/ GetApiInfoFails
    \/ QuotaWarning
    \/ QuotaBreak
    \/ SleepStart
    \/ SleepPoll
    \/ SleepEnd
    \/ CloseConnections

\* run from the quota report on, its thread kept running, the clock
\* standing still.
FairQuota == InitQuota /\ [][LoopStep \/ Signal]_vars /\ WF_vars(LoopStep)

\* ------------------------------------------------------------------
\* ShodanCollector.run_once: one cycle over the profiles
\* ------------------------------------------------------------------
\* Lines 147-148 and 82: the single cycle starts with the first profile.
RunOnceStart ==
    /\ cpc = "start"
    /\ cycle' = 1
    /\ pi' = 1
    /\ cpc' = "profiles"
    /\ UNCHANGED <<now, dbrest, should_exit, last_checkpoint, active_query, banner, yielded, total_processed, country_distribution, naps, intel_stats, intel_history, raw_banners>>

\* Lines 84-86 and 149: the profile loop ends, close_connections is next.
RunOnceDone ==
    /\ cpc = "profiles"
    /\ (pi > Len(Profiles) \/ should_exit)
    /\ cpc' = "shutdown"
    /\ UNCHANGED <<now, dbrest, should_exit, cycle, pi, last_checkpoint, active_query, banner, yielded, total_processed, country_distribution, naps, intel_stats, intel_history, raw_banners>>

\* What an earlier run that found no banner for the first profile left in
\* the stores.
InitOnce ==
    /\ InitDbState
    /\ InitLocals
    /\ raw_banners = {}
    /\ \/ /\ intel_stats = EmptyFn
          /\ intel_history = <<>>
       \/ /\ intel_stats = update_intel_stats(EmptyFn, Profiles[1].name, 0, EmptyFn, 0)
          /\ intel_history = log_intel_history(<<>>, Profiles[1].name, 0, 0)

NextOnce ==
    \/ RunOnceStart
    \/ Signal
    \/ RunOnceDone
    \/ ProfileSkipped
    \/ ProfileStart
    \/ GetCheckpoint
    \/ GetCheckpointFails
    \/ StreamYield
    \/ StreamEnd
    \/ StreamFails
    \/ ShutdownBreak
    \/ ShutdownNotSeen
    \/ SaveBanner
    \/ SaveBannerFails
    \/ Tally
    \/ UpdateIntelStats
    \/ UpdateIntelStatsFails
    \/ LogIntelHistory
    \/ LogIntelHistoryFails
    \/ ErrorBranch
    \/ CloseConnections
    \/ Tick

SpecOnce == InitOnce /\ [][NextOnce]_vars

\* ------------------------------------------------------------------
\* Claims about the checkpoint and the raw record store
\* ------------------------------------------------------------------
\* No stored checkpoint is removed or moved back by a step.
CheckpointMonotone == \A p \in DOMAIN intel_stats : p \in DOMAIN intel_stats' /\ intel_stats'[p].last_checkpoint >= intel_stats[p].last_checkpoint

\* C4: across the cycles of run a profile's stored checkpoint never
\* decreases, and whenever a pass of _process_profile is in its error
\* branch the profile's stored checkpoint is the one the pass read when it
\* began (update_intel_stats was not executed in that pass).
C4_CheckpointKeptOnError ==
    /\ [](cpc = "error" => get_last_checkpoint(intel_stats, Name) = last_checkpoint)
    /\ [][CheckpointMonotone]_vars

\* The identity of a banner or of a stored document.
Identity(d) == <<d.ip_str, d.port, d.timestamp>>

\* At most one stored document per identity.
OnePerIdentity == \A d1, d2 \in raw_banners : Identity(d1) = Identity(d2) => d1 = d2

\* The step in which save_raw_banner returns.
SaveReturns == cpc = "save" /\ cpc' = "tally"

\* The documents of raw_banners' that carry the identity of banner b.
Stored(b) == {d \in raw_banners' : Identity(d) = Identity(b)}

\* C6: the raw record store never holds two documents of one identity
\* (address, port, observation time); when save_raw_banner returns, the
\* store holds exactly one document of the banner's identity, with the
\* fields and collection metadata of this submission, and the documents of
\* every other identity are exactly those that were stored before.
C6_RawStoreIdempotent ==
    /\ []OnePerIdentity
    /\ [][SaveReturns => LET b == Val(banner) IN
            /\ Stored(b) = {RawDocument(b, Name, now)}
            /\ \A d \in Stored(b) : d.location = b.location /\ d.profile_name = Name /\ d.collected_at = now
            /\ raw_banners' \ Stored(b) = {d \in raw_banners : Identity(d) # Identity(b)}]_vars

\* The second pass of the cycle has just persisted the banner without a
\* location; the first pass had persisted one banner, and the store holds a
\* single document: the earlier document of the same identity was replaced.
C6_Witness ==
    /\ cpc = "tally"
    /\ Name = "rdp"
    /\ "web-exposed-db" \in DOMAIN intel_stats
    /\ intel_stats["web-exposed-db"].total_count = 1
    /\ banner = Some([ip_str |-> "10.0.0.5", port |-> 5432, timestamp |-> "t1", location |-> None])
    /\ raw_banners = {RawDocument(Val(banner), "rdp", now)}

\* ------------------------------------------------------------------
\* The reclaimer running beside an active orchestrator cycle: the
\* orchestrator updates its run and inserts services while
\* cleanup_stuck_scans is called on its own cadence
\* ------------------------------------------------------------------
MaintStatusArgs == {None, Some(COMPLETED)}
MaintCountArgs == {None, Some(0), Some(1)}
MaintRiskArgs == {100, 101}

MaintEnter ==
    \/ Enter("orchestrator", "update_scan_run")
    \/ store.services = {} /\ Enter("orchestrator", "insert_service")
    \/ Enter("reclaimer", "cleanup_stuck_scans")

MaintUpdate ==
    \E scan_id \in ScanIds, status \in MaintStatusArgs, s \in MaintCountArgs, n \in MaintCountArgs :
        UpdateScanRun("orchestrator", scan_id, status, s, None, n, TRUE)

MaintInsert == \E risk_score \in MaintRiskArgs : InsertService("orchestrator", 1, 1, 5432, "tcp", None, None, None, <<>>, risk_score, TRUE)

MaintCleanup == \E tm \in Timeouts : CleanupStuckScans("reclaimer", tm, TRUE)

MaintExcept == \E t \in Threads : Except(t)

MaintFinally == \E t \in Threads : Finally(t)

NextMaint ==
    \/ Tick
    \/ MaintEnter
    \/ MaintUpdate
    \/ MaintInsert
    \/ MaintCleanup
    \/ MaintExcept
    \/ MaintFinally

\* The state after init_db, two create_scan_run calls, upsert_target for
\* the first run and update_scan_run(2, status='completed') for the second.
InitMaint ==
    /\ InitCollector
    /\ now = 0
    /\ pool = [exists |-> TRUE, idle |-> 1..MinConn, used |-> {}]
    /\ txn = [c \in Conns |-> IdleTxn]
    /\ store = [EmptyStore EXCEPT
                   !.scan_runs = update_scan_run_sql(create_scan_run_sql(create_scan_run_sql(EmptyFn, 1, None, 0), 2, None, 0), 2, update_scan_run_updates(Some(COMPLETED), None, None, None), 0),
                   !.targets = upsert_target_sql({}, 1, 1, "10.0.0.5", None, None, None, 0)]
    /\ seqs = [targets |-> 1, services |-> 0]
    /\ pc = [t \in Threads |-> "idle"]
    /\ op = [t \in Threads |-> "none"]
    /\ conn = [t \in Threads |-> None]
    /\ cur = [t \in Threads |-> FALSE]
    /\ exc = [t \in Threads |-> None]
    /\ call = [t \in Threads |-> NoCall]
    /\ ret = [t \in Threads |-> None]

SpecMaint == InitMaint /\ [][NextMaint]_vars

\* The counts of a run.
Counts(r) == <<r.targets_count, r.successful_targets, r.failed_targets, r.total_services>>

\* C11: cleanup_stuck_scans(t) leaves unchanged every run that is terminal
\* and every running run whose started-at is not earlier than now minus t
\* minutes; it changes no count of any run, creates and removes no run, and
\* leaves all target and service rows as they were.
C11_CleanupTouchesOnlyStale ==
    [][\A t \in Threads :
          CleanupReturns(t) =>
              /\ DOMAIN Runs' = DOMAIN Runs
              /\ \A i \in DOMAIN Runs :
                    /\ (Runs[i].status \in TerminalStatuses
                          \/ (Runs[i].status = RUNNING /\ Runs[i].started_at >= now - call'[t].timeout_minutes))
                       => Runs'[i] = Runs[i]
                    /\ Counts(Runs'[i]) = Counts(Runs[i])
              /\ store'.targets = store.targets
              /\ store'.services = store.services]_vars

\* cleanup_stuck_scans has just reclaimed the first run, which had a count
\* and a service row, beside the second run, completed at time 0.
C11_Witness ==
    /\ pc["reclaimer"] = "finally"
    /\ call["reclaimer"].name = "cleanup_stuck_scans"
    /\ ret["reclaimer"] = Some(1)
    /\ now = 1
    /\ Runs[1].status = TIMEOUT
    /\ Runs[1].successful_targets = 1
    /\ Runs[2].status = COMPLETED
    /\ Runs[2].finished_at = Some(0)
    /\ store.services # {}
    /\ store.targets # {}

\* insert_service is called with a risk score outside 0..100 in this step.
RejectedInsert(t) == InBody(t, "insert_service") /\ Steps(t) /\ call'[t].row.risk_score \notin 0..100

\* The call of t is insert_service and it is leaving with a ValueError.
LeavingWithValueError(t) == op[t] = "insert_service" /\ pc[t] \in {"except", "finally"} /\ exc[t] = Some("ValueError") /\ Steps(t)

\* C12: insert_service with a risk score outside 0..100 raises ValueError;
\* the error reaches the caller, no step of the call creates or changes a
\* service row (nothing is clamped and stored), and when the call returns
\* its connection is no longer checked out of the pool.
C12_InvalidRiskRejected ==
    [][\A t \in Threads :
          /\ RejectedInsert(t) => pc'[t] = "except" /\ exc'[t] = Some("ValueError") /\ Services' = Services
          /\ LeavingWithValueError(t) => Services' = Services /\ exc'[t] = Some("ValueError")
          /\ LeavingWithValueError(t) /\ pc[t] = "finally" => pc'[t] = "idle" /\ Val(conn[t]) \notin pool'.used]_vars

\* insert_service has returned with a ValueError; a row stored by an earlier
\* call is in the table and no connection is checked out.
C12_Witness ==
    /\ pc["orchestrator"] = "idle"
    /\ exc["orchestrator"] = Some("ValueError")
    /\ Services # {}
    /\ pool.used = {}

\* ------------------------------------------------------------------
\* batch_insert_services (db.py 382-414)
\* ------------------------------------------------------------------
MaxBatch == 2       \* services in one list, at most

\* svc.get('transport', 'tcp')
transport_of(svc) == IF IsNone(svc.transport) THEN "tcp" ELSE Val(svc.transport)

\* The row one parameter tuple of executemany proposes (lines 390-400).
BatchRow(new_id, svc, t0) == ServiceRow(new_id, svc.scan_run_id, svc.target_id, svc.port, transport_of(svc), None, None, None, svc.vulns, svc.risk_score, t0)

\* ON CONFLICT DO UPDATE in place of DO NOTHING: the conflicting row is merged.
on_conflict_do_update(sv, row) == insert_service_sql(sv, row)

\* ON CONFLICT (target_id, port, transport) DO NOTHING (line 407).
on_conflict_do_nothing(sv, row) == sv

\* cur.executemany (lines 402-410): one INSERT per tuple, in list order, in
\* one transaction. Each INSERT takes the next id of the sequence, then
\* checks the CHECK constraint, then looks for a conflicting row, and
\* checks the foreign keys of a row it inserts. The first INSERT that
\* raises ends the loop. rowcount is the sum over the INSERTs.
RECURSIVE executemany(_, _, _, _, _)
executemany(tables, sv, values, seq, t0) ==
    IF values = <<>>
    THEN [ok |-> TRUE, services |-> sv, rowcount |-> 0, seq |-> seq]
    ELSE LET svc == Head(values)
             row == BatchRow(seq + 1, svc, t0)
             conflict == \E r \in sv : SameKey(r, row.target_id, row.port, row.transport)
         IN IF ~risk_score_check(svc.risk_score)
            THEN [ok |-> FALSE, services |-> sv, rowcount |-> 0, seq |-> seq + 1]
            ELSE IF conflict
            THEN executemany(tables, on_conflict_do_nothing(sv, row), Tail(values), seq + 1, t0)
            ELSE IF ~(RunExists(tables, svc.scan_run_id) /\ TargetExists(tables, svc.target_id))
            THEN [ok |-> FALSE, services |-> sv, rowcount |-> 0, seq |-> seq + 1]
            ELSE LET rest == executemany(tables, sv \cup {row}, Tail(values), seq + 1, t0)
                 IN [rest EXCEPT !.rowcount = @ + 1]

\* batch_insert_services([]): lines 384-385 return 0 before get_cursor.
BatchInsertEmpty(t) ==
    /\ pc[t] = "idle"
    /\ call' = [call EXCEPT ![t] = [name |-> "batch_insert_services", services_data |-> <<>>]]
    /\ ret' = [ret EXCEPT ![t] = Some(0)]
    /\ exc' = [exc EXCEPT ![t] = None]
    /\ UNCHANGED <<now, pool, txn, store, seqs, pc, op, conn, cur, covars>>

\* batch_insert_services(services_data) with a list that is not empty.
BatchInsertServices(t, services_data, commit_ok) ==
    /\ InBody(t, "batch_insert_services")
    /\ services_data # <<>>
    /\ LET c == Val(conn[t])
           base == Base(c)
           res == executemany(base, base.services, services_data, seqs.services, now)
           work == [base EXCEPT !.services = res.services]
       IN /\ call' = [call EXCEPT ![t] = [name |-> "batch_insert_services", services_data |-> services_data]]
          /\ seqs' = [seqs EXCEPT !.services = res.seq]
          /\ IF res.ok
             THEN Returned(t, c, work, TRUE, Some(res.rowcount), TRUE, commit_ok)
             ELSE Raised(t, c, "IntegrityError", TRUE)
    /\ UNCHANGED <<now, pool, op, conn, cur, covars>>

\* ------------------------------------------------------------------
\* The orchestrator storing services one by one and in bulk
\* ------------------------------------------------------------------
\* Entries of services_data: two that share the key (1, 5432, tcp) with
\* different values, one with another port, one that breaks the CHECK
\* constraint, one that refers to a target that does not exist.
BatchItems == { [scan_run_id |-> 1, target_id |-> 1, port |-> 5432, transport |-> None, vulns |-> <<>>, risk_score |-> 10], [scan_run_id |-> 1, target_id |-> 1, port |-> 5432, transport |-> Some("tcp"), vulns |-> <<"CVE-2021-44228">>, risk_score |-> 20], [scan_run_id |-> 1, target_id |-> 1, port |-> 6379, transport |-> Some("tcp"), vulns |-> <<>>, risk_score |-> 100], [scan_run_id |-> 1, target_id |-> 1, port |-> 5432, transport |-> Some("tcp"), vulns |-> <<>>, risk_score |-> 101], [scan_run_id |-> 1, target_id |-> 2, port |-> 6379, transport |-> Some("tcp"), vulns |-> <<>>, risk_score |-> 0] }

BatchLists == UNION {[1..n -> BatchItems] : n \in 1..MaxBatch}

BatchRiskArgs == {30, 101}

BatchEnter ==
    \/ seqs.services < MaxSeq /\ Enter("orchestrator", "insert_service")
    \/ seqs.services < MaxSeq /\ Enter("orchestrator", "batch_insert_services")

\* product, version and cpe as the enrichment delivers them: each absent or
\* present, the product under two names.
DescrArgs == [product : {None, Some("nginx"), Some("apache")}, version : {None, Some("1.24")}, cpe : {None, Some("cpe:/a:f5:nginx")}]

BatchSingle == \E risk_score \in BatchRiskArgs, d \in DescrArgs : InsertService("orchestrator", 1, 1, 5432, "tcp", d.product, d.version, d.cpe, <<>>, risk_score, TRUE)

BatchEmpty == BatchInsertEmpty("orchestrator")

BatchBulk ==
    \E services_data \in BatchLists, ok \in BOOLEAN :
        /\ seqs.services + Len(services_data) <= MaxSeq
        /\ BatchInsertServices("orchestrator", services_data, ok)

BatchExcept == Except("orchestrator")

BatchFinally == Finally("orchestrator")

NextBatch ==
    \/ Tick
    \/ BatchEnter
    \/ BatchSingle
    \/ BatchEmpty
    \/ BatchBulk
    \/ BatchExcept
    \/ BatchFinally

SpecBatch == InitTarget /\ [][NextBatch]_vars

\* C13: in every reachable state, whatever insert_service and
\* batch_insert_services calls have succeeded or failed, every stored
\* service row has a risk score within 0..100.
C13_RiskScoreBounded == \A r \in Services : r.risk_score \in 0..100

\* A bulk call whose second entry has risk score 101 is leaving with the
\* constraint violation; its first entry (port 6379) is not in the table,
\* which holds a row stored earlier.
C13_Witness ==
    /\ pc["orchestrator"] = "finally"
    /\ op["orchestrator"] = "batch_insert_services"
    /\ exc["orchestrator"] = Some("IntegrityError")
    /\ Len(call["orchestrator"].services_data) = 2
    /\ call["orchestrator"].services_data[1].port = 6379
    /\ call["orchestrator"].services_data[1].target_id = 1
    /\ call["orchestrator"].services_data[2].risk_score = 101
    /\ Services # {}
    /\ \A r \in Services : r.port # 6379

\* batch_insert_services runs and returns in this step.
BatchReturns(t) == InBody(t, "batch_insert_services") /\ pc'[t] = "finally"

\* batch_insert_services([]) returns in this step.
EmptyBatchReturns(t) == pc[t] = "idle" /\ call'[t] # call[t] /\ call'[t].name = "batch_insert_services"

\* Entry svc of a list has the key of row r.
KeyOf(svc, r) == SameKey(r, svc.target_id, svc.port, transport_of(svc))

\* C14: when batch_insert_services returns, every row that was stored is
\* still there unchanged; every new row has a key no stored row had and
\* carries the values of the first entry of the list with that key; every
\* key of the list has exactly one row; and the number returned is the
\* number of new rows. An empty list returns 0 and changes nothing.
C14_BatchFirstWriteWins ==
    [][\A t \in Threads :
          /\ BatchReturns(t) =>
               LET data == call'[t].services_data
                   new == Services' \ Services
               IN /\ Services \subseteq Services'
                  /\ \A r \in new :
                        /\ ~\E q \in Services : SameKey(q, r.target_id, r.port, r.transport)
                        /\ \E i \in 1..Len(data) :
                              /\ KeyOf(data[i], r)
                              /\ \A j \in 1..(i - 1) : ~KeyOf(data[j], r)
                              /\ r.vulns = data[i].vulns
                              /\ r.risk_score = data[i].risk_score
                              /\ r.scan_run_id = data[i].scan_run_id
                  /\ \A i \in 1..Len(data) : Cardinality({r \in Services' : KeyOf(data[i], r)}) = 1
                  /\ ret'[t] = Some(Cardinality(new))
          /\ EmptyBatchReturns(t) =>
               /\ ret'[t] = Some(0)
               /\ UNCHANGED <<store, seqs, pool, txn, pc, conn>>]_vars

\* A bulk call with an entry for the stored key (1, 5432, tcp) and an entry
\* for port 6379 has returned 1: the row stored by insert_service keeps its
\* risk score 30, the other entry was inserted.
C14_Witness ==
    /\ pc["orchestrator"] = "finally"
    /\ op["orchestrator"] = "batch_insert_services"
    /\ ret["orchestrator"] = Some(1)
    /\ Len(call["orchestrator"].services_data) = 2
    /\ call["orchestrator"].services_data[1].risk_score = 20
    /\ \E r \in Services : r.port = 5432 /\ r.risk_score = 30
    /\ \E r \in Services : r.port = 6379 /\ r.risk_score = 100

\* ------------------------------------------------------------------
\* Claims about failures inside a cycle
\* ------------------------------------------------------------------
\* C15: no failure while a profile is processed (reading its checkpoint,
\* streaming, persisting, finalizing) takes the collector out of its
\* cycle: the exception never leaves run, and a pass that failed hands
\* over to the next profile of the same cycle.
C15_ProfileFailureContained ==
    /\ [](cpc # "crashed")
    /\ [][cpc = "error" /\ cpc' # "error" => cpc' = "profiles" /\ pi' = pi + 1 /\ cycle' = cycle]_vars

\* C16: when save_raw_banner fails for one record the pass is not aborted:
\* the step after the call continues the streaming loop and never enters
\* the error branch.
C16_PersistFailureAbsorbed == [][cpc = "save" /\ cpc' # "save" => cpc' \in {"tally", "stream"}]_vars

\* C17: while a run is running no step lowers its successful, failed or
\* total-services count.
C17_CountsNeverLowered ==
    [][\A i \in DOMAIN Runs :
          Runs[i].status = RUNNING /\ i \in DOMAIN Runs' =>
              /\ Runs'[i].successful_targets >= Runs[i].successful_targets
              /\ Runs'[i].failed_targets >= Runs[i].failed_targets
              /\ Runs'[i].total_services >= Runs[i].total_services]_vars

\* ------------------------------------------------------------------
\* One call of _process_profile (collector.py 98-142)
\* ------------------------------------------------------------------
\* The indexes of the profiles that have a query.
WithQuery == {i \in 1..Len(Profiles) : ~IsNone(Profiles[i].query)}

\* _process_profile is entered on its own (cycle 0) for a profile with a
\* query, at any time of the clock; the profile has no aggregate yet, or the aggregate an earlier
\* pass without banners wrote at some time up to now.
InitPass ==
    /\ InitDbRest
    /\ now \in Times
    /\ should_exit = FALSE
    /\ cpc = "checkpoint"
    /\ cycle = 0
    /\ pi \in WithQuery
    /\ last_checkpoint = None
    /\ active_query = None
    /\ banner = None
    /\ yielded = 0
    /\ total_processed = 0
    /\ country_distribution = EmptyFn
    /\ naps = 0
    /\ raw_banners = {}
    /\ \/ /\ intel_stats = EmptyFn
          /\ intel_history = <<>>
       \/ \E t0 \in 0..now :
             /\ intel_stats = update_intel_stats(EmptyFn, Profiles[pi].name, 0, EmptyFn, t0)
             /\ intel_history = log_intel_history(<<>>, Profiles[pi].name, 0, t0)

NextPass ==
    \/ Signal
    \/ GetCheckpoint
    \/ GetCheckpointFails
    \/ StreamYield
    \/ StreamEnd
    \/ StreamFails
    \/ ShutdownBreak
    \/ ShutdownNotSeen
    \/ SaveBanner
    \/ SaveBannerFails
    \/ Tally
    \/ UpdateIntelStats
    \/ UpdateIntelStatsFails
    \/ LogIntelHistory
    \/ LogIntelHistoryFails
    \/ ErrorBranch
    \/ Tick

SpecPass == InitPass /\ [][NextPass]_vars

\* The step in which the checkpoint has been read and the query is built.
QueryBuilt == cpc = "checkpoint" /\ cpc' = "stream"

\* Timestamp ts lies in day d.
InDay(ts, d) == d * TicksPerDay <= ts /\ ts < (d + 1) * TicksPerDay

\* C18: the query of a pass is the profile's base query; it carries no
\* filter when get_last_checkpoint returned nothing, and otherwise an
\* after-filter with the day the returned checkpoint lies in (not the time of day); the query
\* does not change while the pass streams.
C18_QueryFromCheckpoint ==
    [][/\ QueryBuilt =>
            /\ ~IsNone(active_query')
            /\ Val(active_query').base = Val(Profiles[pi].query)
            /\ IF ~IsNone(last_checkpoint')
               THEN /\ ~IsNone(Val(active_query').after)
                    /\ InDay(Val(last_checkpoint'), Val(Val(active_query').after))
               ELSE IsNone(Val(active_query').after)
       /\ cpc \in {"stream", "check", "save", "tally"} /\ cpc' \in {"stream", "check", "save", "tally"} => active_query' = active_query]_vars

\* A pass has read a checkpoint written at time 1 and streams with a
\* filter on day 0.
C18_Witness ==
    /\ cpc = "stream"
    /\ last_checkpoint = Some(1)
    /\ Val(active_query).after = Some(0)
    /\ Val(active_query).base = "port:3389"

\* Every stored document, aggregate and history point is still stored
\* after the step.
WritesKept ==
    /\ \A d \in raw_banners : \E e \in raw_banners' : e._id = d._id
    /\ DOMAIN intel_stats \subseteq DOMAIN intel_stats'
    /\ Len(intel_history') >= Len(intel_history)
    /\ SubSeq(intel_history', 1, Len(intel_history)) = intel_history
    /\ store' = store

\* C19: with the flag set, no read of the flag lets work begin: no step
\* enters a profile pass, none hands a record to persistence (the only
\* record persisted is one whose flag check came before the flag was set),
\* none enters the quota fetch and none begins a cycle; a sleeping
\* collector takes no further polling step; nothing stored is removed.
C19_ShutdownObserved ==
    [][should_exit =>
            /\ cpc' = "checkpoint" => cpc = "checkpoint"
            /\ cpc' = "save" => cpc = "save"
            /\ raw_banners' # raw_banners => cpc = "save"
            /\ cpc' = "api_info" => cpc = "api_info"
            /\ cycle' = cycle
            /\ naps' > 0 => naps' = naps
            /\ WritesKept]_vars

\* The flag was seen in the streaming loop of a later pass: the banner
\* just yielded is dropped and the documents of earlier passes are kept.
C19_Witness ==
    /\ should_exit
    /\ cpc = "stats"
    /\ yielded = 1
    /\ total_processed = 0
    /\ raw_banners # {}

\* The points of run at which a signal is awaited: between profiles
\* (lines 46 and 86), in the streaming loop (119-129), around the quota
\* report (52-66) and in the sleep (74-75).
ShutdownPoints == {"loop", "profiles", "stream", "check", "save", "tally", "quota", "api_info", "quota_except", "postquota", "sleep"}

C21_AcquireWaitsAtMaximum ==
    /\ Cardinality(pool.used) <= MaxConn
    /\ \A t \in Threads : exc[t] # Some("PoolError")

\* ------------------------------------------------------------------
\* Claims about target identity
\* ------------------------------------------------------------------
\* C22: the targets table holds at most one row per address; a call of
\* upsert_target that returns leaves exactly one row of its address and
\* returns that row's id, which is the id the address had before the call
\* if it was stored; no row is removed, and the id and address of a row
\* stay while its last_seen never decreases.
C22_OneTargetPerAddress ==
    /\ [](\A r1, r2 \in Targets : r1.ip = r2.ip => r1 = r2)
    /\ [][/\ \A r \in Targets : \E n \in Targets' :
                 n.id = r.id /\ n.ip = r.ip /\ n.last_seen >= r.last_seen
          /\ UpsertReturns("orchestrator") =>
                LET ip == call'["orchestrator"].ip
                    rows == {n \in Targets' : n.ip = ip}
                IN /\ Cardinality(rows) = 1
                   /\ \A n \in rows : ret'["orchestrator"] = Some(n.id)
                   /\ \A r \in Targets : r.ip = ip => ret'["orchestrator"] = Some(r.id)]_vars

\* A later call on a stored address has returned the id given at the first
\* observation and has refreshed last_seen, beside a row of another address.
C22_Witness ==
    /\ pc["orchestrator"] = "finally"
    /\ call["orchestrator"].name = "upsert_target"
    /\ call["orchestrator"].ip = "10.0.0.5"
    /\ ret["orchestrator"] = Some(1)
    /\ Cardinality(Targets) = 2
    /\ \E r \in Targets : r.ip = "10.0.0.5" /\ r.id = 1 /\ r.first_seen = 0 /\ r.last_seen = 1

\* ------------------------------------------------------------------
\* Claims about the quota report
\* ------------------------------------------------------------------
\* C23: a quota report that raised is followed by the rest of the loop
\* body with every store and every local as it was; unless a shutdown is
\* requested, run then reaches the inter-cycle sleep and begins the next
\* cycle.
C23_QuotaFailureAbsorbed ==
    /\ [][cpc = "quota_except" /\ cpc' # cpc =>
             /\ cpc' = "postquota"
             /\ UNCHANGED <<now, dbrest, should_exit, cycle, pi, last_checkpoint, active_query, banner, yielded, total_processed, country_distribution, naps, intel_stats, intel_history, raw_banners>>]_vars
    /\ cpc = "quota_except" ~> (should_exit \/ cpc = "sleep")
    /\ cpc = "quota_except" /\ cycle = MaxCycles - 1 ~> (should_exit \/ cycle = MaxCycles)

\* The quota fetch has raised at the end of a cycle, no shutdown requested.
C23_Witness ==
    /\ cpc = "quota_except"
    /\ ~should_exit
    /\ cycle = MaxCycles - 1

\* ------------------------------------------------------------------
\* Claims about the end of a pass
\* ------------------------------------------------------------------
\* The streaming loop was left by the break of line 121: a banner was
\* yielded that was neither persisted nor counted.
Interrupted == cpc \in {"stats", "history"} /\ yielded > total_processed

\* C24: a pass whose streaming loop was left on the shutdown flag, with
\* the banner just yielded not persisted, writes no aggregate, appends no
\* history point and leaves the checkpoint of its profile as it was.
C24_InterruptedPassNotFinalized ==
    [][Interrupted => /\ intel_stats' = intel_stats
                      /\ intel_history' = intel_history
                      /\ get_last_checkpoint(intel_stats', Name) = get_last_checkpoint(intel_stats, Name)]_vars

\* C25: within a pass the tally is entered only by the step in which
\* save_raw_banner stored the banner just yielded, and it counts that one
\* banner; the next banner is yielded only when every banner yielded before
\* has been stored and counted, so documents are written in the order of
\* the feed; a banner whose save_raw_banner raised changes neither the
\* store nor the tally, then or later in the pass.
C25_PersistBeforeTally ==
    [][/\ cpc' = "tally" /\ cpc # "tally" =>
              /\ cpc = "save"
              /\ raw_banners' = save_raw_banner(raw_banners, Val(banner), Name, now)
       /\ total_processed' > total_processed =>
              /\ cpc = "tally"
              /\ total_processed' = total_processed + 1
              /\ country_distribution' = tally(country_distribution, country_code(Val(banner)))
              /\ \E d \in raw_banners : d._id = Digest(Val(banner)) /\ d.profile_name = Name
       /\ country_distribution' # country_distribution /\ country_distribution' # EmptyFn => total_processed' > total_processed
       /\ yielded' > yielded => yielded = total_processed /\ yielded' = yielded + 1
       /\ raw_banners' # raw_banners => cpc = "save" /\ yielded = total_processed + 1
       /\ cpc = "save" /\ cpc' = "error" =>
              /\ raw_banners' = raw_banners
              /\ total_processed' = total_processed
              /\ country_distribution' = country_distribution
       /\ cpc = "error" => raw_banners' = raw_banners /\ total_processed' \in {total_processed, 0}]_vars

\* Two banners were yielded, stored and counted in turn: one located in
\* IT, one without a location.
C25_Witness ==
    /\ cpc = "stream"
    /\ yielded = 2
    /\ total_processed = 2
    /\ Cardinality(raw_banners) = 2
    /\ country_distribution = tally(tally(EmptyFn, "IT"), "Unknown")

\* The sum of the values of a histogram.
RECURSIVE SumOf(_)
SumOf(f) == IF DOMAIN f = {} THEN 0 ELSE LET c == CHOOSE x \in DOMAIN f : TRUE IN f[c] + SumOf([x \in DOMAIN f \ {c} |-> f[x]])

\* The step in which log_intel_history returns and the pass is complete.
Finalizes == cpc = "history" /\ cpc' = "profiles"

\* C26: every banner stored in a pass is counted once and nothing else is
\* counted; the aggregate is written with the count and the histogram of
\* the pass; the pass that finalizes appends exactly one history point,
\* with the count the aggregate holds, and the values of the aggregate's
\* histogram sum to that count; no other step touches the history, whose
\* earlier points stay as they are.
C26_FinalizationConsistent ==
    [][/\ cpc = "save" /\ cpc' = "tally" => total_processed' = total_processed
       /\ cpc = "tally" /\ cpc' # cpc => total_processed' = total_processed + 1
       /\ total_processed' > total_processed => cpc = "tally"
       /\ cpc = "stats" /\ cpc' = "history" =>
              /\ intel_stats'[Name].total_count = total_processed
              /\ intel_stats'[Name].country_distribution = country_distribution
              /\ SumOf(country_distribution) = total_processed
       /\ Finalizes =>
              /\ Len(intel_history') = Len(intel_history) + 1
              /\ intel_history'[Len(intel_history')].profile_name = Name
              /\ intel_history'[Len(intel_history')].count = total_processed
              /\ intel_stats'[Name].total_count = total_processed
              /\ SumOf(intel_stats'[Name].country_distribution) = total_processed
       /\ ~Finalizes => intel_history' = intel_history
       /\ SubSeq(intel_history', 1, Len(intel_history)) = intel_history]_vars

\* A pass has finalized with a count of two after the same address and
\* port was observed twice: one document, a history point with count two
\* after the point of an earlier pass.
C26_Witness ==
    /\ cpc = "profiles"
    /\ Cardinality(raw_banners) = 1
    /\ Len(intel_history) = 2
    /\ intel_history[2].count = 2
    /\ \E n \in DOMAIN intel_stats : intel_stats[n].total_count = 2 /\ intel_stats[n].country_distribution = tally(tally(EmptyFn, "IT"), "IT")

\* ------------------------------------------------------------------
\* Claims about the descriptive fields of a service
\* ------------------------------------------------------------------
\* C27: no step takes product, version or cpe of a stored service row from
\* non-null to null or changes the row's id, key, timestamp or created_at;
\* an insert_service call that returns on a stored key leaves each
\* descriptive field at the incoming value if that is non-null and at the
\* stored value otherwise; no other step changes them.
C27_DescriptiveFieldsMerge ==
    [][\A r \in Services : \E n \in Services' :
          /\ n.id = r.id
          /\ n.target_id = r.target_id /\ n.port = r.port /\ n.transport = r.transport
          /\ n.timestamp = r.timestamp /\ n.created_at = r.created_at
          /\ LET called == InsertReturns("orchestrator") /\ SameKey(r, call'["orchestrator"].row.target_id, call'["orchestrator"].row.port, call'["orchestrator"].row.transport)
                 a == call'["orchestrator"].row
             IN /\ FieldKept(r.product, n.product, called, IF called THEN a.product ELSE None)
                /\ FieldKept(r.version, n.version, called, IF called THEN a.version ELSE None)
                /\ FieldKept(r.cpe, n.cpe, called, IF called THEN a.cpe ELSE None)]_vars

\* insert_service has just updated a row created earlier: the incoming
\* product replaced the stored one, the stored version was kept because
\* none came in.
C27_Witness ==
    /\ pc["orchestrator"] = "finally"
    /\ call["orchestrator"].name = "insert_service"
    /\ call["orchestrator"].row.product = Some("apache")
    /\ call["orchestrator"].row.version = None
    /\ \E r \in Services :
          /\ r.product = Some("apache")
          /\ r.version = Some("1.24")
          /\ r.created_at = 0
          /\ r.updated_at = 1

\* ------------------------------------------------------------------
\* The legacy per-target collector (src/shodan-monitor/collector.py 17-47;
\* scripts/run_collector.py 19-39 is one cycle of the same loop): one
\* connection and one cursor per cycle, one try block per target
\* ------------------------------------------------------------------
\* Banners api.host returns for one address, at most.
MaxItems == 2

\* TARGETS = os.getenv("TARGETS", "").split(","): addresses, blank entries
\* included.
TARGETS == <<"10.0.0.5", "", "10.0.0.6">>

\* Everything of the model but the legacy collector.
nonlegacy == <<now, pool, txn, store, seqs, pc, op, conn, cur, exc, call, ret, should_exit, cpc, cycle, pi, last_checkpoint, active_query, banner, yielded, total_processed, country_distribution, naps, intel_stats, intel_history, raw_banners, pm>>

\* Lines 17-20: a cycle opens its connection and cursor.
LegacyConnect ==
    /\ legacy.lpc = "connect"
    /\ legacy.cycle < MaxCycles
    /\ legacy' = [legacy EXCEPT !.lpc = "target", !.cycle = @ + 1, !.i = 1, !.tx = "idle", !.pending = {}, !.errors = {}]
    /\ UNCHANGED nonlegacy

\* Lines 22-25: a blank entry of TARGETS is skipped.
LegacySkipBlank ==
    /\ legacy.lpc = "target"
    /\ legacy.i <= Len(TARGETS)
    /\ TARGETS[legacy.i] = ""
    /\ legacy' = [legacy EXCEPT !.i = @ + 1]
    /\ UNCHANGED nonlegacy

\* Lines 26-27: api.host(ip) returns a result with n banners.
LegacyHost ==
    /\ legacy.lpc = "target"
    /\ legacy.i <= Len(TARGETS)
    /\ TARGETS[legacy.i] # ""
    /\ \E n \in 0..MaxItems : legacy' = [legacy EXCEPT !.lpc = "items", !.n = n, !.k = 0]
    /\ UNCHANGED nonlegacy

\* Line 27 raises (APIError or a transport error).
LegacyHostFails ==
    /\ legacy.lpc = "target"
    /\ legacy.i <= Len(TARGETS)
    /\ TARGETS[legacy.i] # ""
    /\ legacy' = [legacy EXCEPT !.lpc = "except"]
    /\ UNCHANGED nonlegacy

\* Lines 28-36: the INSERT of the next banner is executed; it joins the
\* open transaction of the connection.  A transaction in error refuses
\* every statement.
LegacyInsert ==
    /\ legacy.lpc = "items"
    /\ legacy.k < legacy.n
    /\ legacy.tx # "inerror"
    /\ legacy' = [legacy EXCEPT !.k = @ + 1, !.tx = "intrans", !.pending = @ \cup {[ip |-> TARGETS[legacy.i], item |-> legacy.k + 1, cycle |-> legacy.cycle]}]
    /\ UNCHANGED nonlegacy

\* Lines 33-36 raise: the server rejects the statement (a value it cannot
\* store, or the transaction is already in error); the transaction is in
\* error from then on.
LegacyInsertFails ==
    /\ legacy.lpc = "items"
    /\ legacy.k < legacy.n
    /\ legacy' = [legacy EXCEPT !.lpc = "except", !.tx = "inerror"]
    /\ UNCHANGED nonlegacy

\* Lines 29-32 raise before the statement is sent (a banner of unexpected
\* shape): the transaction stays as it is.
LegacyItemFails ==
    /\ legacy.lpc = "items"
    /\ legacy.k < legacy.n
    /\ legacy' = [legacy EXCEPT !.lpc = "except"]
    /\ UNCHANGED nonlegacy

\* Rows committed by conn.commit(): everything pending, unless the
\* transaction is in error, which the server ends with a rollback.
legacy_commit(l) == IF l.tx = "inerror" THEN l.scan_results ELSE l.scan_results \cup l.pending

\* Lines 37-38: conn.commit() after the last banner, then the next target.
LegacyCommit ==
    /\ legacy.lpc = "items"
    /\ legacy.k = legacy.n
    /\ legacy' = [legacy EXCEPT !.lpc = "target", !.i = @ + 1, !.tx = "idle", !.pending = {}, !.scan_results = legacy_commit(legacy)]
    /\ UNCHANGED nonlegacy

\* Line 37 raises: the server refuses the commit and ends the transaction
\* with a rollback.
LegacyCommitFails ==
    /\ legacy.lpc = "items"
    /\ legacy.k = legacy.n
    /\ legacy' = [legacy EXCEPT !.lpc = "except", !.tx = "idle", !.pending = {}]
    /\ UNCHANGED nonlegacy

\* Lines 39-42: the error is printed; the loop goes on with the next target.
LegacyExcept ==
    /\ legacy.lpc = "except"
    /\ legacy' = [legacy EXCEPT !.lpc = "target", !.i = @ + 1, !.errors = @ \cup {TARGETS[legacy.i]}]
    /\ UNCHANGED nonlegacy

\* Lines 44-47: cursor and connection are closed, which drops what is
\* pending; the batch is reported and the interval slept.
LegacyClose ==
    /\ legacy.lpc = "target"
    /\ legacy.i > Len(TARGETS)
    /\ legacy' = [legacy EXCEPT !.lpc = "connect", !.tx = "idle", !.pending = {}]
    /\ UNCHANGED nonlegacy

NextLegacy ==
    \/ LegacyConnect
    \/ LegacySkipBlank
    \/ LegacyHost
    \/ LegacyHostFails
    \/ LegacyInsert
    \/ LegacyInsertFails
    \/ LegacyItemFails
    \/ LegacyCommit
    \/ LegacyCommitFails
    \/ LegacyExcept
    \/ LegacyClose

SpecLegacy == InitDb /\ [][NextLegacy]_vars

\* C28: in a cycle of the legacy loop a target whose try block failed has
\* no row of that cycle committed, and the failure does not reach the
\* targets after it: each of them is scanned on a connection whose
\* transaction is neither in error nor holding rows of an earlier target,
\* so that its own rows are accepted and its commit covers them alone.
C28_TargetFailureAbsorbed ==
    /\ \A r \in legacy.scan_results : ~(r.cycle = legacy.cycle /\ r.ip \in legacy.errors)
    /\ legacy.lpc = "target" => legacy.tx = "idle" /\ legacy.pending = {}

\* ------------------------------------------------------------------
\* The pool functions called concurrently (db.py 40-73 and 488-494),
\* one action per read or write of the global _connection_pool; the code
\* takes no lock.  Pools are numbered in the order they are made; 0 is
\* None
\* ------------------------------------------------------------------
\* Pools the model lets the program make.
MaxPools == 3

\* Everything of the model but the pool functions.
nonpm == <<now, pool, txn, store, seqs, pc, op, conn, cur, exc, call, ret, should_exit, cpc, cycle, pi, last_checkpoint, active_query, banner, yielded, total_processed, country_distribution, naps, intel_stats, intel_history, raw_banners, legacy>>

\* The caller t moves on.
PmStep(t, at, fn, local, held, err) == [pm EXCEPT !.th[t] = [at |-> at, fn |-> fn, local |-> local, held |-> held, err |-> err]]

\* Lines 65-67 and 78: get_cursor calls get_connection.
PmGetConnection ==
    /\ \E t \in Threads :
          /\ pm.th[t].at = "idle"
          /\ pm.th[t].held = 0
          /\ pm' = PmStep(t, "get_connection_pool", "getconn", 0, 0, "none")
    /\ UNCHANGED nonpm

\* Lines 70-72 and 90: the finally clause of get_cursor calls
\* return_connection with the connection the caller holds.
PmReturnConnection ==
    /\ \E t \in Threads :
          /\ pm.th[t].at = "idle"
          /\ pm.th[t].held # 0
          /\ pm' = PmStep(t, "get_connection_pool", "putconn", 0, pm.th[t].held, "none")
    /\ UNCHANGED nonpm

\* Lines 61-62: get_connection_pool reads the global.
PmPoolCheck ==
    /\ \E t \in Threads :
          /\ pm.th[t].at = "get_connection_pool"
          /\ pm' = IF pm.global = 0
                   THEN PmStep(t, "init_connection_pool", pm.th[t].fn, 0, pm.th[t].held, "none")
                   ELSE PmStep(t, "return", pm.th[t].fn, 0, pm.th[t].held, "none")
    /\ UNCHANGED nonpm

\* Line 45: init_connection_pool reads the global.
PmInitCheck ==
    /\ \E t \in Threads :
          /\ pm.th[t].at = "init_connection_pool"
          /\ pm' = IF pm.global = 0
                   THEN PmStep(t, "construct", pm.th[t].fn, 0, pm.th[t].held, "none")
                   ELSE PmStep(t, "return", pm.th[t].fn, 0, pm.th[t].held, "none")
    /\ UNCHANGED nonpm

\* Lines 46-56: SimpleConnectionPool(...) is constructed and assigned to
\* the global.
PmConstruct ==
    /\ \E t \in Threads :
          /\ pm.th[t].at = "construct"
          /\ pm.created < MaxPools
          /\ pm' = [PmStep(t, "return", pm.th[t].fn, 0, pm.th[t].held, "none") EXCEPT !.created = @ + 1, !.global = pm.created + 1]
    /\ UNCHANGED nonpm

\* Lines 57 and 63: return _connection_pool, what the global holds at
\* that moment.
PmReturnPool ==
    /\ \E t \in Threads :
          /\ pm.th[t].at = "return"
          /\ pm' = PmStep(t, "use", pm.th[t].fn, pm.global, pm.th[t].held, "none")
    /\ UNCHANGED nonpm

\* Line 68: pool.getconn().  None has no getconn; a closed pool raises
\* PoolError.
PmGetconn ==
    /\ \E t \in Threads :
          /\ pm.th[t].at = "use"
          /\ pm.th[t].fn = "getconn"
          /\ pm' = IF pm.th[t].local = 0 THEN PmStep(t, "idle", "none", 0, 0, "getconn: AttributeError")
                   ELSE IF pm.th[t].local \in pm.closed THEN PmStep(t, "idle", "none", 0, 0, "getconn: PoolError")
                   ELSE PmStep(t, "idle", "none", 0, pm.th[t].local, "none")
    /\ UNCHANGED nonpm

\* Line 73: pool.putconn(conn).  A closed pool raises PoolError, and so
\* does a pool the connection was not taken from ("trying to put unkeyed
\* connection"); the caller lets go of the connection either way.
PmPutconn ==
    /\ \E t \in Threads :
          /\ pm.th[t].at = "use"
          /\ pm.th[t].fn = "putconn"
          /\ pm' = IF pm.th[t].local = 0 THEN PmStep(t, "idle", "none", 0, 0, "putconn: AttributeError")
                   ELSE IF pm.th[t].local \in pm.closed \/ pm.th[t].local # pm.th[t].held THEN PmStep(t, "idle", "none", 0, 0, "putconn: PoolError")
                   ELSE PmStep(t, "idle", "none", 0, 0, "none")
    /\ UNCHANGED nonpm

\* Lines 488-491: close_all_connections, called by a caller that holds no
\* connection, reads the global.
PmCloseCheck ==
    /\ \E t \in Threads :
          /\ pm.th[t].at = "idle"
          /\ pm.th[t].held = 0
          /\ pm.global # 0
          /\ pm' = PmStep(t, "closeall", "closeall", 0, 0, "none")
    /\ UNCHANGED nonpm

\* Line 492: _connection_pool.closeall() closes every connection of the
\* pool, those handed out included.
PmCloseAll ==
    /\ \E t \in Threads :
          /\ pm.th[t].at = "closeall"
          /\ pm' = IF pm.global = 0 THEN PmStep(t, "idle", "none", 0, 0, "closeall: AttributeError")
                   ELSE IF pm.global \in pm.closed THEN PmStep(t, "idle", "none", 0, 0, "closeall: PoolError")
                   ELSE [PmStep(t, "clear", "closeall", 0, 0, "none") EXCEPT !.closed = @ \cup {pm.global}]
    /\ UNCHANGED nonpm

\* Line 493: _connection_pool = None.
PmClear ==
    /\ \E t \in Threads :
          /\ pm.th[t].at = "clear"
          /\ pm' = [PmStep(t, "idle", "none", 0, 0, "none") EXCEPT !.global = 0, !.closes = @ + 1]
    /\ UNCHANGED nonpm

NextPool ==
    \/ PmGetConnection
    \/ PmReturnConnection
    \/ PmPoolCheck
    \/ PmInitCheck
    \/ PmConstruct
    \/ PmReturnPool
    \/ PmGetconn
    \/ PmPutconn
    \/ PmCloseCheck
    \/ PmCloseAll
    \/ PmClear

SpecPool == InitDb /\ [][NextPool]_vars

\* C29: as long as close_all_connections has closed no pool, at most one
\* pool has been made, and every caller that obtained a pool or holds a
\* connection has it from the pool the global names.
C29_OnePoolCreated ==
    pm.closed = {} =>
        /\ pm.created <= 1
        /\ \A t \in Threads : pm.th[t].local \in {0, pm.global} /\ pm.th[t].held \in {0, pm.global}

\* C30: no release of a connection fails, and no release makes a pool:
\* return_connection puts the connection into the pool it was taken from.
C30_ReleasedToOwnPool ==
    /\ \A t \in Threads : pm.th[t].err \notin {"putconn: PoolError", "putconn: AttributeError"}
    /\ \A t \in Threads : ~(pm.th[t].fn = "putconn" /\ pm.th[t].at = "construct")
    /\ \A t \in Threads : pm.th[t].fn = "putconn" /\ pm.th[t].at = "use" => pm.th[t].local = pm.th[t].held
====
